---------------------------- MODULE Spec2Model ----------------------------
(***************************************************************************)
(* Model of the thesis formatter core: the template rule detector          *)
(* (app/engines/template_detector.py), the format applier                  *)
(* (app/engines/format_applier.py), the paragraph AI classifier            *)
(* (app/adapters/ai_classifier.py) and the rule schema                     *)
(* (app/models/schemas.py).                                                *)
(*                                                                         *)
(* Text is a sequence of tokens.  CJK characters are written by their      *)
(* pinyin in capitals, one token per character:                            *)
(*   DI = U+7B2C, ZHANG = U+7AE0, JIE = U+7BC0, YI = U+4E00,               *)
(*   TU = U+5716, BIAO = U+8868, MU = U+76EE, LU = U+9304,                 *)
(*   ZHAI = U+6458, YAO = U+8981, XU = U+7DD2 (any other CJK character).   *)
(* Latin words are one token each and keep their case.                     *)
(* Lengths and sizes are integers in hundredths (12 pt = 1200,             *)
(* line spacing 1.5 = 150).  Unset (None) numeric attributes are NoVal.    *)
(***************************************************************************)
EXTENDS Integers, Sequences, FiniteSets, TLC

\* ------------------------------------------------------------------ bounds
MaxTplParas == 4
MaxSrcParas == 3
MaxRows == 3

\* --------------------------------------------------------------- constants
NoVal == 0 - 1000000
REQUIRED_FONT_NAME == "BiaoKaiTi"

GROUP_KEYS ==
    << "cover", "front_matter", "chapter_title", "section_title",
       "subsection_title", "body", "figure_caption", "table_caption", "toc" >>

GroupKeySet == { GROUP_KEYS[i] : i \in 1..Len(GROUP_KEYS) }

\* -------------------------------------------------------------------- text
WS == { " ", "\t" }
Digits == { "1", "2" }
ChineseNumerals == { "YI" }

Lower(tok) ==
    CASE tok \in { "Figure", "FIGURE", "figure" } -> "figure"
      [] tok \in { "Table", "TABLE", "table" } -> "table"
      [] tok \in { "Of", "OF", "of" } -> "of"
      [] tok \in { "Contents", "CONTENTS", "contents" } -> "contents"
      [] tok \in { "Abstract", "abstract" } -> "abstract"
      [] tok \in { "Keywords", "keywords" } -> "keywords"
      [] OTHER -> tok

LowerText(t) == [ i \in 1..Len(t) |-> Lower(t[i]) ]

RECURSIVE LStrip(_)
LStrip(t) == IF t # << >> /\ Head(t) \in WS THEN LStrip(Tail(t)) ELSE t

RECURSIVE RStrip(_)
RStrip(t) ==
    IF t # << >> /\ t[Len(t)] \in WS THEN RStrip(SubSeq(t, 1, Len(t) - 1)) ELSE t

\* str.strip()
Strip(t) == RStrip(LStrip(t))

\* number of leading tokens of t, from position p on, that lie in S
RECURSIVE RunLen(_, _, _)
RunLen(t, p, S) ==
    IF p <= Len(t) /\ t[p] \in S THEN 1 + RunLen(t, p + 1, S) ELSE 0

\* ^DI[numerals or digits]+ZHANG
CHAPTER_RE(t) ==
    /\ Len(t) >= 3
    /\ t[1] = "DI"
    /\ \E k \in 1..RunLen(t, 2, ChineseNumerals \cup Digits) :
          /\ 2 + k <= Len(t)
          /\ t[2 + k] = "ZHANG"

\* ^DI[numerals or digits]+JIE
SECTION_RE(t) ==
    /\ Len(t) >= 3
    /\ t[1] = "DI"
    /\ \E k \in 1..RunLen(t, 2, ChineseNumerals \cup Digits) :
          /\ 2 + k <= Len(t)
          /\ t[2 + k] = "JIE"

\* ^\d+(?:\.\d+)+
SUBSECTION_RE(t) ==
    \E k \in 1..RunLen(t, 1, Digits) :
        /\ k + 2 <= Len(t)
        /\ t[k + 1] = "."
        /\ t[k + 2] \in Digits

\* ^(TU|Figure)\s*\d+ , ignoring case
FIGURE_RE(t) ==
    /\ Len(t) >= 2
    /\ Lower(t[1]) \in { "TU", "figure" }
    /\ LET w == RunLen(t, 2, WS)
       IN  2 + w <= Len(t) /\ t[2 + w] \in Digits

\* ^(BIAO|Table)\s*\d+ , ignoring case
TABLE_RE(t) ==
    /\ Len(t) >= 2
    /\ Lower(t[1]) \in { "BIAO", "table" }
    /\ LET w == RunLen(t, 2, WS)
       IN  2 + w <= Len(t) /\ t[2 + w] \in Digits

\* detector: ^(MU LU|table of contents)$ , ignoring case
TOC_RE_detector(t) ==
    LowerText(t) \in { << "MU", "LU" >>, << "table", " ", "of", " ", "contents" >> }

\* applier: ^(MU LU|table of contents|TU MU LU|BIAO MU LU)$ , ignoring case
TOC_RE_applier(t) ==
    LowerText(t) \in { << "MU", "LU" >>, << "table", " ", "of", " ", "contents" >>,
                       << "TU", "MU", "LU" >>, << "BIAO", "MU", "LU" >> }

\* ^(ZHAI YAO|abstract)$ , ignoring case
ABSTRACT_RE(t) == LowerText(t) \in { << "ZHAI", "YAO" >>, << "abstract" >> }

\* ^(GUAN JIAN CI|keywords)\s*[:] , ignoring case
KEYWORDS_RE(t) ==
    /\ Len(t) >= 2
    /\ Lower(t[1]) \in { "GUANJIANCI", "keywords" }
    /\ LET w == RunLen(t, 2, WS)
       IN  2 + w <= Len(t) /\ t[2 + w] = ":"

\* ---------------------------------------------------------------- document
\* A run: its text, whether it holds a page break (w:br), its field part
\* ("" when it is no part of a field), and its font attributes.
Run(text, br, fld, name, size, bold, italic) ==
    [ text |-> text, br |-> br, fld |-> fld, instr |-> << >>, name |-> name,
      size |-> size, bold |-> bold, italic |-> italic ]

PlainRun(text) == Run(text, FALSE, "", "", NoVal, "N", "N")

\* A paragraph: its runs, its paragraph format, whether it is numbered
\* (pPr/numPr) and the font attributes of its named style.
Para(runs, alignment, line_spacing, numbered, style) ==
    [ runs |-> runs, alignment |-> alignment, line_spacing |-> line_spacing,
      space_before |-> NoVal, space_after |-> NoVal, first_line_indent |-> NoVal,
      numbered |-> numbered, style |-> style ]

NoStyle == [ name |-> "", size |-> NoVal, bold |-> "N", italic |-> "N" ]

\* line spacing as python-docx hands it over: None, a float multiple, or a
\* Length (an int subclass counting EMU, 12700 per point)
LsNone == [ kind |-> "none", val |-> 0 ]
LsMultiple(h) == [ kind |-> "float", val |-> h ]
LsExact(pt) == [ kind |-> "length", val |-> pt * 12700 ]

RECURSIVE ConcatRunText(_)
ConcatRunText(runs) ==
    IF runs = << >> THEN << >> ELSE Head(runs).text \o ConcatRunText(Tail(runs))

\* paragraph.text
ParaText(p) == ConcatRunText(p.runs)

NoRun == Run(<< >>, FALSE, "", "", NoVal, "N", "N")

\* ---------------------------------------------------------------- detector
Max(a, b) == IF a >= b THEN a ELSE b
Min(a, b) == IF a <= b THEN a ELSE b
\* a clamp that lost its upper bound
Clamp_NoUpper(lo, x, hi) == Max(lo, x)

\* max(lo, min(x, hi))
Clamp(lo, x, hi) == Max(lo, Min(x, hi))

\* TemplateDetector._first_meaningful_run: the first run whose text has a
\* non-whitespace token, NoRun when there is none
RECURSIVE FirstMeaningfulRun(_)
FirstMeaningfulRun(runs) ==
    IF runs = << >> THEN NoRun
    ELSE IF Strip(Head(runs).text) # << >> THEN Head(runs)
    ELSE FirstMeaningfulRun(Tail(runs))

\* an alignment mapping that does not know distribute
AlignmentName_NoDistribute(alignment) ==
    CASE alignment = "CENTER" -> "center"
      [] alignment = "RIGHT" -> "right"
      [] alignment = "JUSTIFY" -> "justify"
      [] OTHER -> "left"

\* an alignment mapping that sends every unrecognized alignment to justify
AlignmentName_Justify(alignment) ==
    CASE alignment = "CENTER" -> "center"
      [] alignment = "RIGHT" -> "right"
      [] alignment = "LEFT" -> "left"
      [] OTHER -> "justify"

\* TemplateDetector._alignment_name
AlignmentName(alignment) ==
    CASE alignment = "CENTER" -> "center"
      [] alignment = "RIGHT" -> "right"
      [] alignment \in { "JUSTIFY", "DISTRIBUTE" } -> "justify"
      [] OTHER -> "left"

\* TemplateDetector._line_spacing_value; font_size is the unclamped size
LineSpacingValue(ls, font_size) ==
    CASE ls.kind = "none" -> 150
      [] ls.kind = "float" -> ls.val
      [] ls.kind = "length" ->
            IF ls.val <= 10 THEN ls.val * 100
            ELSE LET baseline == IF font_size > 0 THEN font_size ELSE 1200
                 IN  \* max(1.0, min(3.0, value / baseline)), the quotient taken
                     \* only where it lies below the upper clamp
                     IF ls.val * 100 >= 3 * baseline THEN 300
                     ELSE Clamp(100, (ls.val * 10000) \div baseline, 300)

\* TemplateDetector._length_to_pt
LengthToPt(v, default) == IF v = NoVal THEN default ELSE v

\* TemplateDetector._snapshot_paragraph
SnapshotParagraph(p, index) ==
    LET run == FirstMeaningfulRun(p.runs)
        hasRun == run # NoRun
        size0 == IF hasRun /\ run.size # NoVal THEN run.size ELSE 1200
        font_size == IF p.style.size # NoVal /\ (~hasRun \/ run.size = NoVal)
                     THEN p.style.size ELSE size0
        bold == IF hasRun THEN run.bold = "T" ELSE p.style.bold = "T"
        font_name == IF hasRun /\ run.name # "" THEN run.name ELSE p.style.name
        italic == IF hasRun THEN run.italic = "T" ELSE p.style.italic = "T"
    IN  [ index |-> index,
          text |-> Strip(ParaText(p)),
          font_name |-> IF font_name # "" THEN font_name ELSE REQUIRED_FONT_NAME,
          font_size_pt |-> Clamp(800, font_size, 3600),
          bold |-> bold,
          italic |-> italic,
          alignment |-> AlignmentName(p.alignment),
          line_spacing |-> Clamp(100, LineSpacingValue(p.line_spacing, font_size), 300),
          space_before_pt |-> Clamp(0 - 2400, LengthToPt(p.space_before, 0), 12000),
          space_after_pt |-> Clamp(0 - 2400, LengthToPt(p.space_after, 0), 12000),
          first_line_indent_pt |-> Clamp(0 - 3600, LengthToPt(p.first_line_indent, 0), 7200),
          is_numbered |-> p.numbered ]

\* TemplateDetector._classify: the first matching rule wins
ClassifyDetector(s) ==
    LET text == s.text
    IN  IF TOC_RE_detector(text)
           \/ text \in { << "TU", "MU", "LU" >>, << "BIAO", "MU", "LU" >> } THEN "toc"
        ELSE IF FIGURE_RE(text) THEN "figure_caption"
        ELSE IF TABLE_RE(text) THEN "table_caption"
        ELSE IF CHAPTER_RE(text) THEN "chapter_title"
        ELSE IF SECTION_RE(text) THEN "section_title"
        ELSE IF SUBSECTION_RE(text) \/ (s.is_numbered /\ Len(text) < 80)
             THEN "subsection_title"
        ELSE IF ABSTRACT_RE(text) \/ KEYWORDS_RE(text) THEN "front_matter"
        ELSE IF s.index < 25 /\ s.alignment = "center"
                /\ (s.bold \/ s.font_size_pt >= 1400) THEN "cover"
        ELSE IF s.index < 35 /\ s.alignment = "center" THEN "front_matter"
        ELSE "body"

\* sorted(values)
RECURSIVE Insert(_, _)
Insert(x, sorted) ==
    IF sorted = << >> THEN << x >>
    ELSE IF x <= Head(sorted) THEN << x >> \o sorted
    ELSE << Head(sorted) >> \o Insert(x, Tail(sorted))

RECURSIVE Sorted(_)
Sorted(values) ==
    IF values = << >> THEN << >> ELSE Insert(Head(values), Sorted(Tail(values)))

RECURSIVE SumSeq(_)
SumSeq(values) == IF values = << >> THEN 0 ELSE Head(values) + SumSeq(Tail(values))

\* an aggregate that takes the mean of the samples
Median_Mean(values, default) ==
    IF values = << >> THEN default ELSE SumSeq(values) \div Len(values)

\* TemplateDetector._median (statistics.median): the middle value, or the
\* mean of the two middle values
Median(values, default) ==
    IF values = << >> THEN default
    ELSE LET srt == Sorted(values)
             n == Len(srt)
         IN  IF n % 2 = 1 THEN srt[(n + 1) \div 2]
             ELSE (srt[n \div 2] + srt[n \div 2 + 1]) \div 2

\* number of positions of values that hold v
CountOf(values, v) == Cardinality({ i \in 1..Len(values) : values[i] = v })

\* TemplateDetector._mode (Counter.most_common(1)): the most frequent value,
\* the first encountered among equally frequent ones
Mode(values, default) ==
    IF values = << >> THEN default
    ELSE LET best == CHOOSE i \in 1..Len(values) :
                        /\ \A j \in 1..Len(values) :
                              CountOf(values, values[j]) <= CountOf(values, values[i])
                        /\ \A j \in 1..(i - 1) :
                              CountOf(values, values[j]) < CountOf(values, values[i])
         IN  values[best]

\* round(x, 1) of a value in hundredths: to the nearest tenth, ties to even
Round1(x) ==
    LET q == x \div 10
        r == x % 10
    IN  IF r < 5 THEN q * 10
        ELSE IF r > 5 THEN (q + 1) * 10
        ELSE IF q % 2 = 0 THEN q * 10 ELSE (q + 1) * 10

\* ParagraphRule with its validators clamp_font_size and clamp_line_spacing
ParagraphRule(font_size_pt, bold, italic, alignment, line_spacing, space_before_pt, space_after_pt, first_line_indent_pt) ==
    [ font_name |-> REQUIRED_FONT_NAME,
      font_size_pt |-> Clamp(800, font_size_pt, 3600),
      bold |-> bold,
      italic |-> italic,
      alignment |-> alignment,
      line_spacing |-> Clamp(100, line_spacing, 300),
      space_before_pt |-> space_before_pt,
      space_after_pt |-> space_after_pt,
      first_line_indent_pt |-> first_line_indent_pt ]

Field(samples, f) == [ i \in 1..Len(samples) |-> samples[i][f] ]

\* TemplateDetector._aggregate_rule
AggregateRule(samples) ==
    LET n == Len(samples)
        nBold == Cardinality({ i \in 1..n : samples[i].bold })
        nItalic == Cardinality({ i \in 1..n : samples[i].italic })
    IN  ParagraphRule(
            Round1(Median(Field(samples, "font_size_pt"), 1200)),
            2 * nBold >= n,
            2 * nItalic >= n,
            Mode(Field(samples, "alignment"), "justify"),
            Median(Field(samples, "line_spacing"), 150),
            Round1(Median(Field(samples, "space_before_pt"), 0)),
            Round1(Median(Field(samples, "space_after_pt"), 0)),
            Round1(Median(Field(samples, "first_line_indent_pt"), 0)))

\* a fallback snapshot without the first-line indent
FallbackSnapshot_NoIndent ==
    [ index |-> 0, text |-> << >>, font_name |-> REQUIRED_FONT_NAME,
      font_size_pt |-> 1200, bold |-> FALSE, italic |-> FALSE,
      alignment |-> "justify", line_spacing |-> 150, space_before_pt |-> 0,
      space_after_pt |-> 0, first_line_indent_pt |-> 0, is_numbered |-> FALSE ]

\* the snapshot detect substitutes when no paragraph was classified body
FallbackSnapshot ==
    [ index |-> 0, text |-> << >>, font_name |-> REQUIRED_FONT_NAME,
      font_size_pt |-> 1200, bold |-> FALSE, italic |-> FALSE,
      alignment |-> "justify", line_spacing |-> 150, space_before_pt |-> 0,
      space_after_pt |-> 0, first_line_indent_pt |-> 2400, is_numbered |-> FALSE ]

\* the snapshots of the non-empty paragraphs of a document, in order
RECURSIVE Snapshots(_, _)
Snapshots(doc, idx) ==
    IF idx > Len(doc) THEN << >>
    ELSE IF Strip(ParaText(doc[idx])) = << >> THEN Snapshots(doc, idx + 1)
    ELSE << SnapshotParagraph(doc[idx], idx - 1) >> \o Snapshots(doc, idx + 1)

\* grouped_samples[key]: the snapshots classified key, in document order
SelectGroup(snaps, key) == SelectSeq(snaps, LAMBDA s : ClassifyDetector(s) = key)

\* grouped_samples after the body fallback of detect
GroupedSamples(doc, key) ==
    LET own == SelectGroup(Snapshots(doc, 1), key)
    IN  IF key = "body" /\ own = << >> THEN << FallbackSnapshot >> ELSE own

\* ParagraphRule() with every field at its default
DefaultParagraphRule == ParagraphRule(1200, FALSE, FALSE, "justify", 150, 0, 0, 0)

\* RuleSet.ensure_group_keys: every canonical key absent from groups is added
\* with the default rule; the keys present are kept
EnsureGroupKeys(groups) ==
    [ key \in (DOMAIN groups) \cup GroupKeySet |->
        IF key \in DOMAIN groups THEN groups[key] ELSE DefaultParagraphRule ]

\* the groups of the RuleSet detect returns
DetectGroups(doc) ==
    EnsureGroupKeys(
        [ key \in GroupKeySet |->
            LET own == GroupedSamples(doc, key)
            IN  AggregateRule(IF own # << >> THEN own ELSE GroupedSamples(doc, "body")) ])

\* the detection notes of detect: the fallback note, then one count per key
DetectNotes(doc) ==
    LET fallback == IF SelectGroup(Snapshots(doc, 1), "body") = << >>
                    THEN << [ kind |-> "fallback", group |-> "body", n |-> 0 ] >>
                    ELSE << >>
    IN  fallback \o
        [ i \in 1..Len(GROUP_KEYS) |->
            [ kind |-> "count", group |-> GROUP_KEYS[i],
              n |-> Len(GroupedSamples(doc, GROUP_KEYS[i])) ] ]

\* ------------------------------------------------------------------- state
VARIABLES
    template,      \* detector: the paragraphs of the template document
    dpc,           \* detector: "start" before detect, "done" after, else "idle"
    rules,         \* detector: the groups of the RuleSet detect returned
    notes,         \* detector: the detection notes detect returned
    config,        \* classifier: its AIProviderConfig
    paragraphs,    \* classifier: the rows passed to classify
    apc,           \* classifier: position in classify ("idle" when unused)
    batches,       \* classifier: the batches _chunk made
    bi,            \* classifier: number of the batch in progress
    pending,       \* classifier: the indices the retry asks for
    labels,        \* classifier: labels collected so far
    ainotes,       \* classifier: notes collected so far
    calls,         \* classifier: the remote calls made, in order
    result,        \* classifier: the mapping classify returned
    files,         \* applier: the documents on disk, files[k + 1] written by the k-th apply
    ruleset,       \* applier: the RuleSet passed to apply
    ai_options,    \* applier: the ai_options passed to apply
    outcomes,      \* applier: how each call of apply ended, in order
    sample,        \* group resolution: the paragraph looked at
    verdict,       \* group resolution: what detector and applier made of it
    rpayload,      \* rules: the payload a caller supplies (parsed rules_override)
    rset,          \* rules: the RuleSet validated from the payload
    rstore,        \* rules: rules_json of the template record
    rloaded,       \* rules: the RuleSet get_rules read back
    rpc,           \* rules: "start", "valid", "rejected", "stored", "loaded", else "idle"
    jtarget,       \* jobs: the uploaded target document
    jform,         \* jobs: the AI form fields of the request, as the ai_options built
    joverride,     \* jobs: the rules_override form field, none or one parsed payload
    jobs,          \* jobs: the JobRecord table
    jtasks,        \* jobs: the background tasks scheduled, with how each ended
    joutputs,      \* jobs: the files of the outputs directory
    jresp,         \* jobs: the last HTTP response
    jpc            \* jobs: "start", "created", "rejected", else "idle"

detectorVars == << template, dpc, rules, notes >>
classifierVars ==
    << config, paragraphs, apc, batches, bi, pending, labels, ainotes, calls, result >>
applierVars == << files, ruleset, ai_options, outcomes >>
lockedVars == << sample, verdict >>
rulesVars == << rpayload, rset, rstore, rloaded, rpc >>
jobsVars == << jtarget, jform, joverride, jobs, jtasks, joutputs, jresp, jpc >>
vars == << detectorVars, classifierVars, applierVars, lockedVars, rulesVars, jobsVars >>

\* ------------------------------------------------------- detector: templates
TextRun(text, size, bold) == Run(text, FALSE, "", "", size, bold, "N")

TplChapterDefault ==
    Para(<< PlainRun(<< "DI", "YI", "ZHANG", " ", "XU" >>) >>, "None", LsNone, FALSE, NoStyle)
TplBodyDefault ==
    Para(<< PlainRun(<< "XU" >>) >>, "None", LsNone, FALSE, NoStyle)
TplBody12 ==
    Para(<< TextRun(<< "XU", "XU" >>, 1200, "F") >>, "JUSTIFY", LsMultiple(150), FALSE, NoStyle)
TplBody40 ==
    Para(<< TextRun(<< "XU" >>, 4000, "T") >>, "LEFT", LsMultiple(350), FALSE, NoStyle)
TplBody125 ==
    Para(<< TextRun(<< "XU" >>, 1250, "N") >>, "JUSTIFY", LsMultiple(200), FALSE, NoStyle)
TplChapterBold ==
    Para(<< TextRun(<< "DI", "2", "ZHANG" >>, 1600, "T") >>, "CENTER", LsMultiple(150), FALSE, NoStyle)
TplCaptionSmall ==
    Para(<< TextRun(<< "TU", " ", "1" >>, 600, "N") >>, "CENTER", LsExact(18), FALSE, NoStyle)
TplBlank ==
    Para(<< PlainRun(<< " " >>) >>, "None", LsNone, FALSE, NoStyle)

TplParaPool ==
    { TplChapterDefault, TplBodyDefault, TplBody12, TplBody40, TplBody125,
      TplChapterBold, TplCaptionSmall, TplBlank }

Templates == UNION { [ 1..n -> TplParaPool ] : n \in 0..MaxTplParas }

EmptyMap == [ i \in {} |-> "body" ]

ClassifierIdle ==
    /\ config = [ provider |-> "off", openai_api_key |-> FALSE,
                  gemini_api_key |-> FALSE, batch_size |-> 1 ]
    /\ paragraphs = << >>
    /\ apc = "idle"
    /\ batches = << >>
    /\ bi = 0
    /\ pending = {}
    /\ labels = EmptyMap
    /\ ainotes = << >>
    /\ calls = << >>
    /\ result = EmptyMap

DetectorIdle == template = << >> /\ dpc = "idle" /\ rules = << >> /\ notes = << >>

ApplierIdle == files = << >> /\ ruleset = << >> /\ ai_options = << >> /\ outcomes = << >>

LockedIdle == sample = << >> /\ verdict = << >>

RulesIdle ==
    rpayload = << >> /\ rset = << >> /\ rstore = << >> /\ rloaded = << >> /\ rpc = "idle"

JobsIdle ==
    /\ jtarget = << >> /\ jform = << >> /\ joverride = << >> /\ jobs = << >>
    /\ jtasks = << >> /\ joutputs = << >> /\ jresp = << >> /\ jpc = "idle"

\* TemplateDetector.detect
Detect ==
    /\ dpc = "start"
    /\ rules' = DetectGroups(template)
    /\ notes' = DetectNotes(template)
    /\ dpc' = "done"
    /\ UNCHANGED << template, classifierVars, applierVars, lockedVars, rulesVars, jobsVars >>

InitDetect ==
    /\ template \in Templates
    /\ dpc = "start"
    /\ rules = << >>
    /\ notes = << >>
    /\ ClassifierIdle
    /\ ApplierIdle
    /\ LockedIdle
    /\ RulesIdle
    /\ JobsIdle

NextDetect == Detect

SpecDetect == InitDetect /\ [][NextDetect]_vars

\* ------------------------------------------------------- detector: claims
Range(f) == { f[i] : i \in DOMAIN f }

\* the k-th smallest of values, by counting
KthSmallest(values, k) ==
    CHOOSE v \in Range(values) :
        /\ Cardinality({ i \in DOMAIN values : values[i] < v }) < k
        /\ Cardinality({ i \in DOMAIN values : values[i] <= v }) >= k

\* twice the median of values: the sum of the two middle order statistics
TwiceMedian(values) ==
    LET n == Len(values)
    IN  KthSmallest(values, (n + 1) \div 2) + KthSmallest(values, (n + 2) \div 2)

\* the font sizes of the snapshots detect classified into key
GroupFontSizes(key) == Field(SelectGroup(Snapshots(template, 1), key), "font_size_pt")

\* C3: the RuleSet detect returns for any template, an empty one or one of
\* blank paragraphs included, has all nine canonical group keys, and every
\* group's rule has its font size within [8, 36] and its line spacing
\* within [1.0, 3.0].
C3_GroupCompleteness ==
    dpc = "done" =>
        /\ GroupKeySet \subseteq DOMAIN rules
        /\ \A key \in GroupKeySet :
              /\ rules[key].font_size_pt >= 800
              /\ rules[key].font_size_pt <= 3600
              /\ rules[key].line_spacing >= 100
              /\ rules[key].line_spacing <= 300

\* the detector has run on a template that holds a blank paragraph and a
\* paragraph whose font size and line spacing lie outside the ranges
C3_Witness ==
    /\ dpc = "done"
    /\ \E i \in DOMAIN template : template[i] = TplBlank
    /\ \E i \in DOMAIN template : template[i] = TplBody40

\* C7: the aggregated font size of a group is the median of the (clamped)
\* font sizes of the group's snapshots, rounded to one decimal, and for the
\* body samples [12, 12, 12, 40] it is 12.
C7_MedianFontSize ==
    dpc = "done" =>
        /\ \A key \in GroupKeySet :
              GroupFontSizes(key) # << >> =>
                  LET m2 == TwiceMedian(GroupFontSizes(key))
                      r == rules[key].font_size_pt
                  IN  /\ r % 10 = 0
                      /\ 2 * r - m2 <= 10
                      /\ m2 - 2 * r <= 10
        /\ template = << TplBody12, TplBody12, TplBody12, TplBody40 >>
              => rules["body"].font_size_pt = 1200

\* detect has aggregated the body samples [12, 12, 12, 40]
C7_Witness ==
    /\ dpc = "done"
    /\ template = << TplBody12, TplBody12, TplBody12, TplBody40 >>
    /\ GroupFontSizes("body") = << 1200, 1200, 1200, 3600 >>

ClassifiedInto(key) == SelectGroup(Snapshots(template, 1), key)

\* the rule aggregated from the fallback snapshot alone
FallbackBodyRule ==
    [ font_name |-> REQUIRED_FONT_NAME, font_size_pt |-> 1200, bold |-> FALSE,
      italic |-> FALSE, alignment |-> "justify", line_spacing |-> 150,
      space_before_pt |-> 0, space_after_pt |-> 0, first_line_indent_pt |-> 2400 ]

\* C18: every canonical group into which no template paragraph was
\* classified gets a rule identical to the body rule, and when no paragraph
\* was classified body the body rule is the fallback: 12 pt, justify, line
\* spacing 1.5, first-line indent 24, space before and after 0, not bold, not
\* italic.
C18_EmptyGroupsGetBodyRule ==
    dpc = "done" =>
        /\ \A key \in GroupKeySet :
              ClassifiedInto(key) = << >> => rules[key] = rules["body"]
        /\ ClassifiedInto("body") = << >> => rules["body"] = FallbackBodyRule

\* detect has run on a template with a bold 16 pt chapter title and no body
\* paragraph: the cover rule is the fallback body rule, the chapter rule is not
C18_Witness ==
    /\ dpc = "done"
    /\ template = << TplChapterBold, TplBlank >>
    /\ ClassifiedInto("body") = << >>
    /\ rules["cover"] = FallbackBodyRule
    /\ rules["chapter_title"] # rules["body"]

\* the count notes detect returned for a group
CountNotes(key) == SelectSeq(notes, LAMBDA note : note.kind = "count" /\ note.group = key)

\* C19: detect returns exactly one sample-count note per canonical group,
\* whose count is the number of template paragraphs classified into that
\* group, and the fallback note exactly when no template paragraph was
\* classified body.
C19_CountNotes ==
    dpc = "done" =>
        /\ \A key \in GroupKeySet :
              /\ Len(CountNotes(key)) = 1
              /\ CountNotes(key)[1].n = Len(ClassifiedInto(key))
        /\ (\E i \in 1..Len(notes) : notes[i].kind = "fallback")
              <=> ClassifiedInto("body") = << >>

\* -------------------------------------------------------------- classifier
\* a resolution that lets the AI label win over the locked group
ResolveGroup_AiFirst(locked_group, ai_labels, index, heuristic_group) ==
    IF index \in DOMAIN ai_labels THEN ai_labels[index]
    ELSE IF locked_group # "" THEN locked_group
    ELSE heuristic_group

\* FormatApplier._apply_paragraph_rules, the group a row resolves to:
\* row["locked_group"] or ai_labels.get(row["index"], row["heuristic_group"]);
\* "" stands for no locked group (None)
ResolveGroup(locked_group, ai_labels, index, heuristic_group) ==
    IF locked_group # "" THEN locked_group
    ELSE IF index \in DOMAIN ai_labels THEN ai_labels[index]
    ELSE heuristic_group

\* A row passed to classify: its index and whether it carries a "text" key.
Row(index, has_text) == [ index |-> index, has_text |-> has_text ]

RowIndices(rows) == { rows[i].index : i \in DOMAIN rows }

\* ParagraphAIClassifier._resolve_provider; "" stands for no provider (None)
ResolveProvider(cfg) ==
    LET provider == IF cfg.provider = "" THEN "auto" ELSE cfg.provider
    IN  IF provider \in { "off", "none", "disable", "disabled" } THEN ""
        ELSE IF provider = "openai"
             THEN (IF cfg.openai_api_key THEN "openai" ELSE "")
        ELSE IF provider = "gemini"
             THEN (IF cfg.gemini_api_key THEN "gemini" ELSE "")
        ELSE IF cfg.openai_api_key THEN "openai"
        ELSE IF cfg.gemini_api_key THEN "gemini"
        ELSE ""

\* ParagraphAIClassifier._disabled_reason_note
DisabledReasonNote(cfg) ==
    LET provider == IF cfg.provider = "" THEN "auto" ELSE cfg.provider
    IN  [ kind |-> "disabled",
          reason |-> IF provider \in { "off", "none", "disable", "disabled" } THEN "off"
                     ELSE IF provider = "openai" THEN "no_openai_key"
                     ELSE IF provider = "gemini" THEN "no_gemini_key"
                     ELSE "no_key",
          n |-> 0 ]

\* range(0, n, size) for size # 0
RECURSIVE RangeFrom(_, _, _)
RangeFrom(i, n, size) ==
    IF size > 0 /\ i < n THEN << i >> \o RangeFrom(i + size, n, size) ELSE << >>

\* ParagraphAIClassifier._chunk for size # 0: items[i : i + size] for every
\* i of range(0, len(items), size); a negative size gives no batch
Chunk(items, size) ==
    LET starts == RangeFrom(0, Len(items), size)
    IN  [ k \in 1..Len(starts) |->
            SubSeq(items, starts[k] + 1, Min(starts[k] + size, Len(items))) ]

\* ParagraphAIClassifier._build_prompt raises KeyError on a row without "text"
BuildPromptRaises(batch) == \E i \in DOMAIN batch : ~batch[i].has_text

\* ParagraphAIClassifier._collect_valid_labels on a parsed reply: the items
\* whose group is a canonical key
CollectValidLabels(items) ==
    [ i \in { j \in DOMAIN items : items[j] \in GroupKeySet } |-> items[i] ]

\* dict.update
Update(old, new) ==
    [ i \in (DOMAIN old) \cup (DOMAIN new) |-> IF i \in DOMAIN new THEN new[i] ELSE old[i] ]

\* a retry that sends the whole batch again
MissingRows_WholeBatch(batch, missing) == batch

\* the rows _retry_missing_labels puts in its prompt
MissingRows(batch, missing) == SelectSeq(batch, LAMBDA r : r.index \in missing)

\* the closing notes of classify
ClosingNotes(provider, nLabels, nParagraphs) ==
    << [ kind |-> "enabled", reason |-> provider, n |-> 0 ],
       [ kind |-> "completed", reason |-> "", n |-> nLabels ] >>

FailureNote(err) == [ kind |-> "failed", reason |-> err, n |-> 0 ]
IncompleteNote(n) == [ kind |-> "incomplete", reason |-> "", n |-> n ]

\* the remote provider's replies to a prompt holding the rows with indices
\* asked: a failure of the call, a reply that is no JSON, or a JSON reply
\* labelling some of the asked indices and possibly one index not asked for,
\* each with a canonical group or with a group that is none
AllIndices == 0..(MaxRows - 1)
StrayIndices(asked) ==
    IF AllIndices \ asked = {} THEN {}
    ELSE { CHOOSE i \in AllIndices \ asked : \A j \in AllIndices \ asked : i <= j }
RawGroups == { "body", "bogus" }
Replies(asked) ==
    { [ kind |-> "raise", err |-> e, items |-> EmptyMap ] : e \in { "http403", "timeout" } }
    \cup { [ kind |-> "notjson", err |-> "ValueError", items |-> EmptyMap ] }
    \cup { [ kind |-> "json", err |-> "", items |-> f ] :
             f \in UNION { [ S -> RawGroups ] : S \in SUBSET (asked \cup StrayIndices(asked)) } }

\* one remote call, as the log keeps it
Call(batch, kind, rows, reply) ==
    [ batch |-> batch, kind |-> kind, rows |-> rows, reply |-> reply.kind,
      got |-> DOMAIN CollectValidLabels(reply.items) ]

\* classify up to its first remote call: the early returns, _chunk, and the
\* prompt of the first batch
ClassifyStart ==
    /\ apc = "start"
    /\ UNCHANGED << config, paragraphs, detectorVars, applierVars, lockedVars, rulesVars, jobsVars, calls, pending, labels >>
    /\ IF paragraphs = << >>
       THEN /\ apc' = "returned"
            /\ result' = EmptyMap
            /\ ainotes' = << >>
            /\ UNCHANGED << batches, bi >>
       ELSE IF ResolveProvider(config) = ""
       THEN /\ apc' = "returned"
            /\ result' = EmptyMap
            /\ ainotes' = << DisabledReasonNote(config) >>
            /\ UNCHANGED << batches, bi >>
       ELSE IF config.batch_size = 0
       THEN \* range() arg 3 must not be zero
            /\ apc' = "raised"
            /\ UNCHANGED << result, ainotes, batches, bi >>
       ELSE LET chunks == Chunk(paragraphs, config.batch_size)
            IN  /\ batches' = chunks
                /\ IF chunks = << >>
                   THEN /\ apc' = "returned"
                        /\ result' = labels
                        /\ ainotes' = ClosingNotes(ResolveProvider(config), 0, Len(paragraphs))
                        /\ bi' = 0
                   ELSE /\ bi' = 1
                        /\ apc' = IF BuildPromptRaises(chunks[1]) THEN "raised" ELSE "call"
                        /\ UNCHANGED << result, ainotes >>

\* the loop of classify after batch bi: the next batch's prompt, or the
\* closing notes and the return
NextBatch(newLabels, newNotes) ==
    IF bi < Len(batches)
    THEN /\ bi' = bi + 1
         /\ apc' = IF BuildPromptRaises(batches[bi + 1]) THEN "raised" ELSE "call"
         /\ labels' = newLabels
         /\ ainotes' = newNotes
         /\ UNCHANGED result
    ELSE /\ apc' = "returned"
         /\ labels' = newLabels
         /\ result' = newLabels
         /\ ainotes' = newNotes \o ClosingNotes(ResolveProvider(config),
                                               Cardinality(DOMAIN newLabels), Len(paragraphs))
         /\ UNCHANGED bi

\* an except branch that hands back the labels collected so far
FailClassify_KeepLabels(err) ==
    /\ apc' = "returned"
    /\ result' = labels
    /\ ainotes' = Append(ainotes, FailureNote(err))
    /\ UNCHANGED << bi, labels, pending >>

\* the except branch of classify: a failure note and an empty mapping
FailClassify(err) ==
    /\ apc' = "returned"
    /\ result' = EmptyMap
    /\ ainotes' = Append(ainotes, FailureNote(err))
    /\ UNCHANGED << bi, labels, pending >>

\* the first remote call of batch bi and what classify does with its reply
FirstCall ==
    /\ apc = "call"
    /\ UNCHANGED << config, paragraphs, detectorVars, applierVars, lockedVars, rulesVars, jobsVars, batches >>
    /\ \E reply \in Replies(RowIndices(batches[bi])) :
          /\ calls' = Append(calls, Call(bi, "first", RowIndices(batches[bi]), reply))
          /\ IF reply.kind # "json"
             THEN FailClassify(reply.err)
             ELSE LET batch_labels == CollectValidLabels(reply.items)
                      merged == Update(labels, batch_labels)
                      missing == RowIndices(batches[bi]) \ DOMAIN batch_labels
                  IN  IF missing # {}
                      THEN /\ apc' = "retry"
                           /\ pending' = missing
                           /\ labels' = merged
                           /\ UNCHANGED << bi, result, ainotes >>
                      ELSE /\ NextBatch(merged, ainotes)
                           /\ UNCHANGED pending

\* _retry_missing_labels: the second remote call of batch bi, its prompt
\* holding the rows of the missing indices, and what classify does next
RetryCall ==
    /\ apc = "retry"
    /\ UNCHANGED << config, paragraphs, detectorVars, applierVars, lockedVars, rulesVars, jobsVars, batches >>
    /\ \E reply \in Replies(RowIndices(MissingRows(batches[bi], pending))) :
          /\ calls' = Append(calls, Call(bi, "retry",
                                         RowIndices(MissingRows(batches[bi], pending)), reply))
          /\ IF reply.kind # "json"
             THEN FailClassify(reply.err)
             ELSE LET merged == Update(labels, CollectValidLabels(reply.items))
                      missing == RowIndices(batches[bi]) \ DOMAIN merged
                  IN  /\ NextBatch(merged, IF missing # {}
                                           THEN Append(ainotes, IncompleteNote(Cardinality(missing)))
                                           ELSE ainotes)
                      /\ UNCHANGED pending

\* the configurations and inputs classify is run on
Configs ==
    { [ provider |-> p, openai_api_key |-> k[1], gemini_api_key |-> k[2], batch_size |-> b ] :
        p \in { "off", "openai", "gemini", "auto" },
        k \in { << TRUE, FALSE >>, << FALSE, TRUE >>, << FALSE, FALSE >> },
        b \in { 0 - 1, 0, 1, 2 } }

WellFormedInput(n) == [ i \in 1..n |-> Row(i - 1, TRUE) ]
ClassifyInputs ==
    { WellFormedInput(n) : n \in 0..MaxRows }
    \cup { [ WellFormedInput(n) EXCEPT ![n].has_text = FALSE ] : n \in 1..MaxRows }

InitClassify ==
    /\ DetectorIdle
    /\ ApplierIdle
    /\ LockedIdle
    /\ RulesIdle
    /\ JobsIdle
    /\ config \in Configs
    /\ paragraphs \in ClassifyInputs
    /\ apc = "start"
    /\ batches = << >>
    /\ bi = 0
    /\ pending = {}
    /\ labels = EmptyMap
    /\ ainotes = << >>
    /\ calls = << >>
    /\ result = EmptyMap

NextClassify == ClassifyStart \/ FirstCall \/ RetryCall

SpecClassify == InitClassify /\ [][NextClassify]_vars

\* ------------------------------------------------------ classifier: claims
CallsOf(b) == SelectSeq(calls, LAMBDA c : c.batch = b)

\* classify has decided what follows the first call of batch b
BatchSettled(b) == b < bi \/ (b = bi /\ apc \in { "returned", "raised" })

\* the indices for which some reply among the first k calls had a valid label
GotUpTo(k) == UNION { calls[j].got : j \in 1..k }

\* the counts the incomplete-reply notes must carry, in order: one for each
\* answered retry after which an index of its batch is still unlabelled
RECURSIVE ExpectedIncomplete(_)
ExpectedIncomplete(k) ==
    IF k = 0 THEN << >>
    ELSE LET c == calls[k]
             left == RowIndices(batches[c.batch]) \ GotUpTo(k)
         IN  ExpectedIncomplete(k - 1) \o
             (IF c.kind = "retry" /\ c.reply = "json" /\ left # {}
              THEN << Cardinality(left) >> ELSE << >>)

IncompleteCounts ==
    LET sel == SelectSeq(ainotes, LAMBDA x : x.kind = "incomplete")
    IN  [ i \in 1..Len(sel) |-> sel[i].n ]

\* what C5 says of every batch, answered being the kinds of first reply
\* that count as a response that may lack labels
C5_Body(answered) ==
    /\ \A b \in 1..Len(batches) :
          LET cs == CallsOf(b)
          IN  /\ Len(cs) <= 2
              /\ Len(cs) >= 1 =>
                    /\ cs[1].kind = "first"
                    /\ cs[1].rows = RowIndices(batches[b])
              /\ Len(cs) = 2 =>
                    /\ cs[2].kind = "retry"
                    /\ cs[2].rows = RowIndices(batches[b]) \ cs[1].got
              /\ (BatchSettled(b) /\ Len(cs) >= 1 /\ cs[1].reply \in answered) =>
                    (Len(cs) = 2 <=> ~(RowIndices(batches[b]) \subseteq cs[1].got))
    /\ IncompleteCounts = ExpectedIncomplete(Len(calls))
    /\ apc = "returned" =>
          \A i \in RowIndices(paragraphs) :
              i \notin GotUpTo(Len(calls)) =>
                  /\ i \notin DOMAIN result
                  /\ \A h \in GroupKeySet : ResolveGroup("", result, i, h) = h

\* C5 as stated: per batch one remote call; exactly one further call, for
\* the missing rows only, if and only if the response lacks a valid label
\* for some index of the batch (a response that is no JSON lacks them all);
\* an index no reply labelled is absent from the mapping and resolves to its
\* heuristic group; a note counts the unresolved paragraphs; never more
\* than two calls per batch.
C5_Original == C5_Body({ "json", "notjson" })

\* C5 as amended: the same, the retry being made if and only if the first
\* response parses as JSON and lacks a valid label for some index of the
\* batch; a response that is no JSON is a failure of the call, after which
\* no further call is made.
C5_Amended ==
    /\ C5_Body({ "json" })
    /\ \A k \in 1..Len(calls) : calls[k].reply # "json" => k = Len(calls) /\ apc = "returned"

\* classify has returned after a retry that left an index unlabelled
C5_Witness ==
    /\ apc = "returned"
    /\ \E k \in 1..Len(calls) : calls[k].kind = "retry" /\ calls[k].reply = "json"
    /\ \E i \in 1..Len(ainotes) : ainotes[i].kind = "incomplete"
    /\ \E i \in RowIndices(paragraphs) : i \notin DOMAIN result
    /\ DOMAIN result # {}

\* C10 as stated: classify never raises, whatever the configuration, the
\* rows and the replies; after an internal error the mapping is empty and
\* the notes carry a message for it.
C10_NeverRaises ==
    /\ apc # "raised"
    /\ (apc = "returned" /\ \E k \in 1..Len(calls) : calls[k].reply # "json") =>
          /\ result = EmptyMap
          /\ \E i \in 1..Len(ainotes) : ainotes[i].kind = "failed"

\* C30: every key of the mapping classify returns is the index of a row it
\* was passed, the label of a key was collected from a reply to a call of a
\* batch holding that index, and the count of the completion note is at most
\* the number of rows passed.
C30_KeysArePassedIndices ==
    apc = "returned" =>
       /\ DOMAIN result \subseteq RowIndices(paragraphs)
       /\ \A i \in DOMAIN result :
             \E k \in 1..Len(calls) :
                i \in calls[k].got /\ i \in RowIndices(batches[calls[k].batch])
       /\ \A n \in 1..Len(ainotes) :
             ainotes[n].kind = "completed" => ainotes[n].n <= Len(paragraphs)

LockedNames == { "toc", "figure_caption", "table_caption" }

\* C11: when a remote call (first call or retry) raises in some batch,
\* classify returns an empty mapping: the labels of earlier batches are
\* dropped, no later batch is tried, and every paragraph resolves to its
\* locked group or else its heuristic group.
C11_RaiseDiscardsLabels ==
    \A k \in 1..Len(calls) :
        calls[k].reply = "raise" =>
            /\ k = Len(calls)
            /\ apc = "returned"
            /\ bi = calls[k].batch
            /\ DOMAIN result = {}
            /\ \A i \in RowIndices(paragraphs) : \A h \in GroupKeySet :
                  /\ ResolveGroup("", result, i, h) = h
                  /\ \A l \in LockedNames : ResolveGroup(l, result, i, h) = l

\* the second of three batches raised after the first had been labelled
C11_Witness ==
    /\ Len(batches) = 3
    /\ Len(calls) >= 2
    /\ calls[Len(calls)].reply = "raise"
    /\ calls[Len(calls)].batch = 2
    /\ DOMAIN labels # {}
    /\ DOMAIN result = {}
    /\ apc = "returned"

\* ----------------------------------------------------------------- applier
\* FormatApplier._locked_group; "" stands for None
LockedGroup(text) ==
    IF TOC_RE_applier(text) THEN "toc"
    ELSE IF FIGURE_RE(text) THEN "figure_caption"
    ELSE IF TABLE_RE(text) THEN "table_caption"
    ELSE ""

\* FormatApplier._classify: the first matching rule wins
ClassifyApplier(index, text, p) ==
    IF LockedGroup(text) # "" THEN LockedGroup(text)
    ELSE IF CHAPTER_RE(text) THEN "chapter_title"
    ELSE IF SECTION_RE(text) THEN "section_title"
    ELSE IF SUBSECTION_RE(text) THEN "subsection_title"
    ELSE IF ABSTRACT_RE(text) \/ KEYWORDS_RE(text) THEN "front_matter"
    ELSE IF index < 25 /\ p.alignment = "CENTER" THEN "cover"
    ELSE IF index < 35 /\ p.alignment = "CENTER" THEN "front_matter"
    ELSE IF p.numbered THEN "subsection_title"
    ELSE "body"

\* FormatApplier._to_alignment
ToAlignment(alignment) ==
    CASE alignment = "center" -> "CENTER"
      [] alignment = "right" -> "RIGHT"
      [] alignment = "justify" -> "JUSTIFY"
      [] OTHER -> "LEFT"

\* run.font.size = Pt(x): the size is stored in whole half-points
StoredFontSize(font_size_pt) == ((font_size_pt * 2) \div 100) * 50

BoolAttr(b) == IF b THEN "T" ELSE "F"

\* a Pt(x) length as the document stores it: whole twentieths of a point
StoredLength(pt) == ((pt * 2 + 5) \div 10) * 5

\* a run formatting that keeps the font name the run had
FormatRun_KeepName(r, rule) ==
    [ r EXCEPT !.size = StoredFontSize(rule.font_size_pt),
               !.bold = BoolAttr(rule.bold),
               !.italic = BoolAttr(rule.italic) ]

\* FormatApplier._apply_rule_to_paragraph, one run
FormatRun(r, rule) ==
    [ r EXCEPT !.name = REQUIRED_FONT_NAME,
               !.size = StoredFontSize(rule.font_size_pt),
               !.bold = BoolAttr(rule.bold),
               !.italic = BoolAttr(rule.italic) ]

\* FormatApplier._apply_rule_to_paragraph
ApplyRuleToParagraph(p, rule) ==
    LET runs == IF p.runs = << >> THEN << PlainRun(<< >>) >> ELSE p.runs
    IN  [ p EXCEPT !.alignment = ToAlignment(rule.alignment),
                   !.line_spacing = LsMultiple(rule.line_spacing),
                   !.space_before = StoredLength(rule.space_before_pt),
                   !.space_after = StoredLength(rule.space_after_pt),
                   !.first_line_indent = StoredLength(rule.first_line_indent_pt),
                   !.runs = [ i \in 1..Len(runs) |-> FormatRun(runs[i], rule) ] ]

\* groups.get(key, default)
GetRule(groups, key, default) == IF key \in DOMAIN groups THEN groups[key] ELSE default

\* the rows of _apply_paragraph_rules: the positions of the paragraphs whose
\* stripped text is not empty
RowPositions(doc) == { i \in 1..Len(doc) : Strip(ParaText(doc[i])) # << >> }

\* the positions collected into ai_inputs: the rows with no locked group
AiInputPositions(doc) ==
    { i \in RowPositions(doc) : LockedGroup(Strip(ParaText(doc[i]))) = "" }

\* the last loop of _apply_paragraph_rules: every row gets the rule of the
\* group it resolves to (the body rule when the group has none)
RewriteParagraphs(doc, groups, ai_labels) ==
    [ i \in 1..Len(doc) |->
        IF i \in RowPositions(doc)
        THEN LET text == Strip(ParaText(doc[i]))
                 group == ResolveGroup(LockedGroup(text), ai_labels, i - 1,
                                       ClassifyApplier(i - 1, text, doc[i]))
             IN  ApplyRuleToParagraph(doc[i], GetRule(groups, group, groups["body"]))
        ELSE doc[i] ]

\* a run holding a w:instrText; the instruction is a sequence of characters
InstrRun(instruction) ==
    [ Run(<< >>, FALSE, "instr", "", NoVal, "N", "N") EXCEPT !.instr = instruction ]

\* FormatApplier._add_complex_field: the five runs it appends
FieldRuns(instruction) ==
    << Run(<< >>, FALSE, "begin", "", NoVal, "N", "N"),
       InstrRun(instruction),
       Run(<< >>, FALSE, "separate", "", NoVal, "N", "N"),
       PlainRun(<< "1" >>),
       Run(<< >>, FALSE, "end", "", NoVal, "N", "N") >>

NewPara(runs) == Para(runs, "None", LsNone, FALSE, NoStyle)

\* the three paragraphs _ensure_index_pages inserts for one block, in the
\* order of insertion: page break, field, heading
BlockParagraphs(block, groups) ==
    LET toc_rule == GetRule(groups, "toc", groups["section_title"])
    IN  << NewPara(<< Run(<< >>, TRUE, "", "", NoVal, "N", "N") >>),
           ApplyRuleToParagraph(NewPara(FieldRuns(block.instruction)),
                                GetRule(groups, "body", toc_rule)),
           ApplyRuleToParagraph(NewPara(<< PlainRun(block.title) >>), toc_rule) >>

TitleToc == << "MU", "LU" >>
TitleFigures == << "TU", "MU", "LU" >>
TitleTables == << "BIAO", "MU", "LU" >>

\* TOC \o "1-3" \h \z \u
InstrToc ==
    << "T", "O", "C", " ", "\\", "o", " ", "\"", "1", "-", "3", "\"", " ",
       "\\", "h", " ", "\\", "z", " ", "\\", "u" >>
\* TOC \h \z \c "Figure"
InstrFigures ==
    << "T", "O", "C", " ", "\\", "h", " ", "\\", "z", " ", "\\", "c", " ",
       "\"", "F", "i", "g", "u", "r", "e", "\"" >>
\* TOC \h \z \c "Table"
InstrTables ==
    << "T", "O", "C", " ", "\\", "h", " ", "\\", "z", " ", "\\", "c", " ",
       "\"", "T", "a", "b", "l", "e", "\"" >>

\* the blocks _ensure_index_pages finds missing, in the order it lists them
MissingBlocks(doc) ==
    LET existing_titles == { Strip(ParaText(doc[i])) : i \in RowPositions(doc) }
    IN  (IF TitleToc \notin existing_titles
         THEN << [ title |-> TitleToc, instruction |-> InstrToc ] >> ELSE << >>)
        \o (IF TitleFigures \notin existing_titles
            THEN << [ title |-> TitleFigures, instruction |-> InstrFigures ] >> ELSE << >>)
        \o (IF TitleTables \notin existing_titles
            THEN << [ title |-> TitleTables, instruction |-> InstrTables ] >> ELSE << >>)

\* FormatApplier._find_first_chapter_paragraph, as a position; 0 for None
FirstChapterPosition(doc) ==
    IF \E i \in 1..Len(doc) : CHAPTER_RE(Strip(ParaText(doc[i])))
    THEN CHOOSE i \in 1..Len(doc) :
            /\ CHAPTER_RE(Strip(ParaText(doc[i])))
            /\ \A j \in 1..(i - 1) : ~CHAPTER_RE(Strip(ParaText(doc[j])))
    ELSE 0

\* anchor.insert_paragraph_before for each of paras in turn, the anchor
\* being at position a
InsertBefore(doc, a, paras) == SubSeq(doc, 1, a - 1) \o paras \o SubSeq(doc, a, Len(doc))

\* the loop of _ensure_index_pages over reversed(blocks): blocks[k] is
\* inserted before the anchor, then blocks[k - 1], ...
RECURSIVE InsertBlocks(_, _, _, _, _)
InsertBlocks(doc, a, blocks, k, groups) ==
    IF k = 0 THEN doc
    ELSE InsertBlocks(InsertBefore(doc, a, BlockParagraphs(blocks[k], groups)),
                      a + 3, blocks, k - 1, groups)

\* the end of _ensure_index_pages: a first paragraph without text whose only
\* run holds a break is removed
DropLeadingBreak(doc) ==
    IF /\ Strip(ParaText(doc[1])) = << >>
       /\ Len(doc[1].runs) = 1
       /\ doc[1].runs[1].br
    THEN Tail(doc) ELSE doc

\* FormatApplier._ensure_index_pages
EnsureIndexPages(doc, groups) ==
    IF doc = << >> THEN doc
    ELSE LET blocks == MissingBlocks(doc)
             chapter == FirstChapterPosition(doc)
             anchor == IF chapter # 0 THEN chapter ELSE 1
         IN  IF blocks = << >> THEN doc
             ELSE DropLeadingBreak(InsertBlocks(doc, anchor, blocks, Len(blocks), groups))

\* --------------------------------------------------------------- page rule
LowerLetters ==
    << "a", "b", "c", "d", "e", "f", "g", "h", "i", "j", "k", "l", "m",
       "n", "o", "p", "q", "r", "s", "t", "u", "v", "w", "x", "y", "z" >>
UpperLetters ==
    << "A", "B", "C", "D", "E", "F", "G", "H", "I", "J", "K", "L", "M",
       "N", "O", "P", "Q", "R", "S", "T", "U", "V", "W", "X", "Y", "Z" >>

\* str.upper on a sequence of characters
Upper(t) ==
    [ i \in 1..Len(t) |->
        IF \E k \in 1..26 : LowerLetters[k] = t[i]
        THEN UpperLetters[CHOOSE k \in 1..26 : LowerLetters[k] = t[i]]
        ELSE t[i] ]

\* sub in t
Contains(t, sub) ==
    \E i \in 0..(Len(t) - Len(sub)) : SubSeq(t, i + 1, i + Len(sub)) = sub

\* PAGE \* MERGEFORMAT
InstrPage ==
    << "P", "A", "G", "E", " ", "\\", "*", " ",
       "M", "E", "R", "G", "E", "F", "O", "R", "M", "A", "T" >>

\* PageRule of schemas.py with its defaults, lengths in hundredths of a point
DefaultPageRule ==
    [ page_width_pt |-> 59530, page_height_pt |-> 84190,
      margin_top_pt |-> 7200, margin_bottom_pt |-> 7200,
      margin_left_pt |-> 7200, margin_right_pt |-> 7200,
      header_distance_pt |-> 3600, footer_distance_pt |-> 3600, gutter_pt |-> 0,
      page_number_format |-> "decimal", page_number_start |-> 1 ]

\* the nine lengths _apply_page_rule sets on a section
SectionGeometry(page) ==
    [ page_width |-> StoredLength(page.page_width_pt),
      page_height |-> StoredLength(page.page_height_pt),
      top_margin |-> StoredLength(page.margin_top_pt),
      bottom_margin |-> StoredLength(page.margin_bottom_pt),
      left_margin |-> StoredLength(page.margin_left_pt),
      right_margin |-> StoredLength(page.margin_right_pt),
      header_distance |-> StoredLength(page.header_distance_pt),
      footer_distance |-> StoredLength(page.footer_distance_pt),
      gutter |-> StoredLength(page.gutter_pt) ]

\* a page pass that writes the format attribute whatever the format is
SetSection_AnyFormat(section, page, idx) ==
    [ section EXCEPT
        !.geometry = SectionGeometry(page),
        !.pg_node = TRUE,
        !.pg_fmt = page.page_number_format,
        !.pg_start = IF idx = 0 /\ page.page_number_start > 0
                     THEN page.page_number_start ELSE @ ]

\* _apply_page_rule, the body of its loop up to the footer: idx counts from 0
SetSection(section, page, idx) ==
    [ section EXCEPT
        !.geometry = SectionGeometry(page),
        !.pg_node = TRUE,
        !.pg_fmt = IF page.page_number_format # "" /\ page.page_number_format # "none"
                   THEN page.page_number_format ELSE @,
        !.pg_start = IF idx = 0 /\ page.page_number_start > 0
                     THEN page.page_number_start ELSE @ ]

\* the section whose footer definition section k shows: its own, else the one
\* of the nearest earlier section that has one, else the first section's
FooterOwner(sections, k) ==
    IF \E j \in 1..k : ~sections[j].footer.linked
    THEN CHOOSE j \in 1..k :
            /\ ~sections[j].footer.linked
            /\ \A i \in (j + 1)..k : sections[i].footer.linked
    ELSE 1

\* FormatApplier._ensure_footer_page_field on a footer definition; a footer
\* without a definition gets one, which holds one empty paragraph
EnsureFooterPageField(footer) ==
    LET paras0 == IF footer.linked THEN << NewPara(<< >>) >> ELSE footer.paras
        paras == IF paras0 = << >> THEN << NewPara(<< >>) >> ELSE paras0
        paragraph == paras[1]
        has_page_field ==
            \E i \in 1..Len(paragraph.runs) :
                /\ paragraph.runs[i].instr # << >>
                /\ Contains(Upper(paragraph.runs[i].instr), << "P", "A", "G", "E" >>)
    IN  [ linked |-> FALSE,
          paras |-> IF has_page_field THEN paras
                    ELSE [ paras EXCEPT ![1] =
                             [ paragraph EXCEPT !.alignment = "CENTER",
                                                !.runs = @ \o FieldRuns(InstrPage) ] ] ]

\* FormatApplier._apply_page_rule from section k on
RECURSIVE ApplyPageRuleFrom(_, _, _)
ApplyPageRuleFrom(sections, page, k) ==
    IF k > Len(sections) THEN sections
    ELSE LET set == [ sections EXCEPT ![k] = SetSection(@, page, k - 1) ]
             owner == FooterOwner(set, k)
         IN  ApplyPageRuleFrom(
                 [ set EXCEPT ![owner].footer = EnsureFooterPageField(@) ], page, k + 1)

\* FormatApplier._apply_page_rule
ApplyPageRule(sections, page) == ApplyPageRuleFrom(sections, page, 1)

\* ---------------------------------------------------------------- settings
\* the module-level settings object: the fields of the Settings dataclass
settings ==
    [ app_name |-> "app", app_version |-> "1.0.0", host |-> "127.0.0.1",
      port |-> "8765", debug |-> "false", max_upload_size_mb |-> "50",
      base_dir |-> "base", data_dir |-> "data", templates_dir |-> "templates",
      uploads_dir |-> "uploads", work_dir |-> "work", outputs_dir |-> "outputs",
      database_path |-> "app.db", database_url |-> "sqlite", defaults_dir |-> "defaults",
      default_template_source |-> "model.docx" ]

\* the attributes of settings from_overrides reads before anything else
SettingsReads ==
    { "ai_provider", "openai_api_key", "openai_model", "gemini_api_key",
      "gemini_model", "ai_timeout_sec", "ai_batch_size" }

\* overrides.get(key, default)
Get(overrides, key, default) == IF key \in DOMAIN overrides THEN overrides[key] ELSE default

\* ParagraphAIClassifier.from_overrides: reading an attribute the settings
\* object lacks raises AttributeError; otherwise the configuration is the
\* settings, overridden key by key when overrides is not empty (a key is
\* modelled by whether it is set)
FromOverrides(overrides) ==
    IF \E f \in SettingsReads : f \notin DOMAIN settings
    THEN [ raised |-> TRUE, error |-> "AttributeError" ]
    ELSE [ raised |-> FALSE, error |-> "",
           config |->
             IF DOMAIN overrides = {}
             THEN [ provider |-> settings["ai_provider"],
                    openai_api_key |-> settings["openai_api_key"],
                    gemini_api_key |-> settings["gemini_api_key"],
                    batch_size |-> settings["ai_batch_size"] ]
             ELSE LET provider == Get(overrides, "provider", settings["ai_provider"])
                      batch_size == Get(overrides, "batch_size", settings["ai_batch_size"])
                  IN  [ provider |-> Lower(IF provider = "" THEN settings["ai_provider"]
                                                             ELSE provider),
                        openai_api_key |-> Get(overrides, "openai_api_key",
                                               settings["openai_api_key"]),
                        gemini_api_key |-> Get(overrides, "gemini_api_key",
                                               settings["gemini_api_key"]),
                        batch_size |-> Max(1, IF batch_size = 0 THEN settings["ai_batch_size"]
                                                                ELSE batch_size) ] ]

\* what classify can hand back to apply: it raises, or it returns labels for
\* some indices and its notes
ClassifyOutcomes(cfg, indices) ==
    { [ raised |-> TRUE, error |-> "classify", labels |-> EmptyMap, notes |-> << >> ] }
    \cup { [ raised |-> FALSE, error |-> "", labels |-> l, notes |-> n ] :
             l \in UNION { [ S -> GroupKeySet ] : S \in SUBSET indices },
             n \in { << >>, << "note" >> } }

\* ------------------------------------------------------------------- apply
MaxApplies == 2
MaxJobs == 2
MaxJobParas == 1

Returned(warnings) == [ raised |-> FALSE, error |-> "", warnings |-> warnings ]
Raised(error) == [ raised |-> TRUE, error |-> error, warnings |-> << >> ]

\* FormatApplier.apply on one loaded document: the page rule, the paragraph
\* rules, the index pages, the save.  Each result carries the outcome and the
\* saved output (none when an exception left the output unsaved).
ApplyDocument(document, rs, options) ==
    LET sections == ApplyPageRule(document.sections, rs.page)
        groups == rs.groups
        ai_inputs == AiInputPositions(document.paras)
        built == IF ai_inputs = {} THEN [ raised |-> FALSE, error |-> "" ]
                 ELSE FromOverrides(options)
    IN  IF built.raised
        THEN { [ outcome |-> Raised(built.error), saved |-> << >> ] }
        ELSE { IF out.raised
               THEN [ outcome |-> Raised(out.error), saved |-> << >> ]
               ELSE [ outcome |-> Returned(out.notes),
                      saved |-> << [ paras |-> EnsureIndexPages(
                                                 RewriteParagraphs(document.paras, groups,
                                                                   out.labels),
                                                 groups),
                                     sections |-> sections ] >> ]
               : out \in IF ai_inputs = {}
                         THEN { [ raised |-> FALSE, error |-> "",
                                  labels |-> EmptyMap, notes |-> << >> ] }
                         ELSE ClassifyOutcomes(built.config,
                                               { i - 1 : i \in ai_inputs }) }

\* FormatApplier.apply, the k-th call reading files[k] and saving files[k + 1].
\* An exception leaves the output unsaved.
Apply ==
    /\ files # << >>
    /\ Len(outcomes) < MaxApplies
    /\ UNCHANGED << ruleset, ai_options, detectorVars, classifierVars, lockedVars, rulesVars, jobsVars >>
    /\ LET k == Len(outcomes) + 1
       IN  IF k > Len(files)
           THEN /\ outcomes' = Append(outcomes, Raised("PackageNotFoundError"))
                /\ UNCHANGED files
           ELSE \E r \in ApplyDocument(files[k], ruleset, ai_options) :
                    /\ outcomes' = Append(outcomes, r.outcome)
                    /\ files' = files \o r.saved

\* ------------------------------------------------- applier: source documents
ArialRun(text) == Run(text, FALSE, "", "Arial", 1000, "N", "N")
SrcPara(runs, alignment) == Para(runs, alignment, LsNone, FALSE, NoStyle)

SrcToc == SrcPara(<< ArialRun(TitleToc) >>, "None")
SrcFigures == SrcPara(<< ArialRun(TitleFigures) >>, "None")
SrcTables == SrcPara(<< ArialRun(TitleTables) >>, "None")
SrcFigureCaption == SrcPara(<< ArialRun(<< "Figure", " ", "1" >>), ArialRun(<< " ", "XU" >>) >>, "CENTER")
SrcChapter == SrcPara(<< ArialRun(<< "DI", "YI", "ZHANG", " ", "XU" >>) >>, "None")
SrcBody == SrcPara(<< PlainRun(<< "XU" >>) >>, "CENTER")
SrcBlank == SrcPara(<< ArialRun(<< " " >>) >>, "None")
SrcBreak == SrcPara(<< Run(<< >>, TRUE, "", "", NoVal, "N", "N") >>, "None")

SrcParaPool ==
    { SrcToc, SrcFigures, SrcTables, SrcFigureCaption, SrcChapter, SrcBody,
      SrcBlank, SrcBreak }

\* NUMPAGES
InstrNumPages == << "N", "U", "M", "P", "A", "G", "E", "S" >>

NoGeometry ==
    [ page_width |-> NoVal, page_height |-> NoVal, top_margin |-> NoVal,
      bottom_margin |-> NoVal, left_margin |-> NoVal, right_margin |-> NoVal,
      header_distance |-> NoVal, footer_distance |-> NoVal, gutter |-> NoVal ]

\* A section: its lengths, whether it has a pgNumType node and the node's fmt
\* and start attributes ("" and NoVal when absent), its footer
Section(pg_fmt, pg_start, footer) ==
    [ geometry |-> NoGeometry, pg_node |-> (pg_fmt # "" \/ pg_start # NoVal),
      pg_fmt |-> pg_fmt, pg_start |-> pg_start, footer |-> footer ]

LinkedFooter == [ linked |-> TRUE, paras |-> << >> ]

SrcSectionsPool ==
    { << Section("", NoVal, LinkedFooter) >>,
      << Section("upperRoman", 3,
                 [ linked |-> FALSE,
                   paras |-> << NewPara(<< InstrRun(InstrNumPages) >>) >> ]),
         Section("", NoVal, LinkedFooter) >> }

SourceDocuments ==
    { [ paras |-> ps, sections |-> ss ] :
        ps \in UNION { [ 1..n -> SrcParaPool ] : n \in 0..MaxSrcParas },
        ss \in SrcSectionsPool }

\* RuleSet() of schemas.py: its default groups and page
DefaultRuleSet ==
    [ page |-> DefaultPageRule,
      groups |->
        [ cover |-> ParagraphRule(1600, TRUE, FALSE, "center", 100, 0, 0, 0),
          front_matter |-> ParagraphRule(1200, FALSE, FALSE, "justify", 150, 0, 0, 2400),
          chapter_title |-> ParagraphRule(1600, TRUE, FALSE, "center", 150, 0, 0, 0),
          section_title |-> ParagraphRule(1400, TRUE, FALSE, "center", 150, 0, 0, 0),
          subsection_title |-> ParagraphRule(1200, TRUE, FALSE, "left", 150, 0, 0, 0),
          body |-> ParagraphRule(1200, FALSE, FALSE, "justify", 150, 0, 0, 2400),
          figure_caption |-> ParagraphRule(1100, FALSE, FALSE, "center", 120, 0, 0, 0),
          table_caption |-> ParagraphRule(1100, FALSE, FALSE, "center", 120, 0, 0, 0),
          toc |-> ParagraphRule(1400, TRUE, FALSE, "center", 100, 0, 0, 0) ] ]

\* a RuleSet with other values: no page number format, no start, a body rule
\* centred at 12.25 pt
OtherRuleSet ==
    [ page |-> [ DefaultPageRule EXCEPT !.page_number_format = "none",
                                        !.page_number_start = 0,
                                        !.gutter_pt = 1207 ],
      groups |-> [ DefaultRuleSet.groups EXCEPT
                     !.body = ParagraphRule(1225, FALSE, TRUE, "center", 125, 607, 0, 0) ] ]

RuleSets == { DefaultRuleSet, OtherRuleSet }

AiOptions == { << >>, [ provider |-> "off" ] }

InitApply ==
    /\ DetectorIdle
    /\ ClassifierIdle
    /\ LockedIdle
    /\ RulesIdle
    /\ JobsIdle
    /\ files \in { << d >> : d \in SourceDocuments }
    /\ ruleset \in RuleSets
    /\ ai_options \in AiOptions
    /\ outcomes = << >>

NextApply == Apply

SpecApply == InitApply /\ [][NextApply]_vars

\* ------------------------------------------------------------ apply: claims
Applied(k) == Len(outcomes) >= k
Completed(k) == Applied(k) /\ ~outcomes[k].raised
\* files[k + 1] is the output of the k-th apply once it completed (an apply
\* that raised saves nothing, and the next one finds no file to read)
Output(k) == files[k + 1]

CountTitle(doc, title) ==
    Cardinality({ i \in 1..Len(doc.paras) : Strip(ParaText(doc.paras[i])) = title })

\* the rows of the test's _extract_snapshot: text, first-run font name, size
\* and bold of every paragraph with text
ExtractSnapshot(doc) ==
    LET kept == SelectSeq(doc.paras, LAMBDA p : Strip(ParaText(p)) # << >>)
    IN  [ i \in 1..Len(kept) |->
            << Strip(ParaText(kept[i])),
               IF kept[i].runs = << >> THEN "" ELSE kept[i].runs[1].name,
               IF kept[i].runs = << >> THEN NoVal ELSE kept[i].runs[1].size,
               IF kept[i].runs = << >> THEN "N" ELSE kept[i].runs[1].bold >> ]

ClassifierOff == "provider" \in DOMAIN ai_options /\ ai_options["provider"] = "off"

\* C1: with the AI classifier disabled, applying the RuleSet to the output of
\* a first apply gives a document whose paragraphs with text have the same
\* text, first-run font name, size and bold flag as after the first apply,
\* and each of the two outputs holds exactly one paragraph MU LU.
C1_Idempotent ==
    (ClassifierOff /\ Applied(2)) =>
        /\ Completed(1)
        /\ Completed(2)
        /\ ExtractSnapshot(Output(2)) = ExtractSnapshot(Output(1))
        /\ CountTitle(Output(1), TitleToc) = 1
        /\ CountTitle(Output(2), TitleToc) = 1

AllRunsRequiredFont(p) ==
    \A i \in 1..Len(p.runs) : p.runs[i].name = REQUIRED_FONT_NAME

\* C2 as stated: after apply completes, every run of every paragraph of the
\* output has the required font name, whether the paragraph has text or not
\* and whether it came from the source or was inserted by apply.
C2_Original ==
    \A k \in 1..Len(outcomes) :
        Completed(k) =>
            \A i \in 1..Len(Output(k).paras) : AllRunsRequiredFont(Output(k).paras[i])

\* C2 as amended: after apply completes, every run of every paragraph of the
\* output whose stripped text is not empty has the required font name:
\* source paragraphs with text, and the field and heading paragraphs apply
\* inserts.
C2_Amended ==
    \A k \in 1..Len(outcomes) :
        Completed(k) =>
            \A i \in 1..Len(Output(k).paras) :
                Strip(ParaText(Output(k).paras[i])) # << >>
                    => AllRunsRequiredFont(Output(k).paras[i])

\* an apply completed on a source that held a figure caption set in Arial,
\* and its output holds that caption, an inserted heading and an inserted field
C2_Witness ==
    /\ Completed(1)
    /\ \E i \in 1..Len(files[1].paras) : files[1].paras[i] = SrcFigureCaption
    /\ \E i \in 1..Len(Output(1).paras) :
          /\ Strip(ParaText(Output(1).paras[i])) = << "Figure", " ", "1", " ", "XU" >>
          /\ Len(Output(1).paras[i].runs) = 2
    /\ CountTitle(Output(1), TitleToc) = 1
    /\ \E i \in 1..Len(Output(1).paras) :
          \E j \in 1..Len(Output(1).paras[i].runs) :
              Output(1).paras[i].runs[j].instr = InstrToc

IsPageBreakPara(p) ==
    Strip(ParaText(p)) = << >> /\ Len(p.runs) = 1 /\ p.runs[1].br
IsTocFieldPara(p) ==
    \E j \in 1..Len(p.runs) : p.runs[j].instr = InstrToc

\* C6: for a document without a paragraph MU LU and with a chapter title,
\* apply inserts exactly one heading MU LU right before the first chapter
\* title, preceded by one table-of-contents field paragraph and one page-break
\* paragraph; for a document that has a paragraph MU LU it inserts none.
C6_IndexPageSynthesis ==
    Applied(1) =>
        LET src == files[1]
            chapter == FirstChapterPosition(src.paras)
        IN  /\ (CountTitle(src, TitleToc) = 0 /\ chapter # 0) =>
                  /\ Completed(1)
                  /\ CountTitle(Output(1), TitleToc) = 1
                  /\ LET out == Output(1).paras
                         c == FirstChapterPosition(out)
                     IN  /\ c >= 4
                         /\ Strip(ParaText(out[c - 1])) = TitleToc
                         /\ IsTocFieldPara(out[c - 2])
                         /\ IsPageBreakPara(out[c - 3])
                         /\ Len(out) >= Len(src.paras) + 3
            /\ (CountTitle(src, TitleToc) >= 1 /\ Completed(1)) =>
                  CountTitle(Output(1), TitleToc) = CountTitle(src, TitleToc)

\* C9: a failure of the AI classification step, the building of the
\* classifier from settings and overrides included, never aborts apply: the
\* rules are applied, the output is saved, every candidate paragraph gets the
\* rule of its heuristic group and at least one warning is returned.
C9_AIFailureNeverAborts ==
    (Applied(1) /\ AiInputPositions(files[1].paras) # {} /\ FromOverrides(ai_options).raised) =>
        /\ Completed(1)
        /\ Len(files) >= 2
        /\ Output(1).paras =
              EnsureIndexPages(RewriteParagraphs(files[1].paras, ruleset.groups, EmptyMap),
                               ruleset.groups)
        /\ outcomes[1].warnings # << >>

\* the configuration from_overrides would build for ai_options when the
\* provider is switched off
OffConfig ==
    [ provider |-> "off", openai_api_key |-> FALSE, gemini_api_key |-> FALSE,
      batch_size |-> 1 ]

\* C12: with the provider switched off classify makes no remote call and
\* returns an empty mapping with exactly one note giving the reason, and
\* apply completes with every paragraph resolved by its locked or heuristic
\* group.
C12_DisabledProvider ==
    (Applied(1) /\ ClassifierOff) =>
        /\ ResolveProvider(OffConfig) = ""
        /\ Completed(1)
        /\ Len(files) >= 2
        /\ Output(1).paras =
              EnsureIndexPages(RewriteParagraphs(files[1].paras, ruleset.groups, EmptyMap),
                               ruleset.groups)
        /\ AiInputPositions(files[1].paras) # {} =>
              outcomes[1].warnings = << DisabledReasonNote(OffConfig) >>

\* --------------------------------------------------------- group resolution
\* texts that match a locked pattern once stripped, by the group they lock
TocTexts ==
    { << "MU", "LU" >>, << "TU", "MU", "LU" >>, << "BIAO", "MU", "LU" >>,
      << "Table", " ", "of", " ", "Contents" >>, << "TABLE", " ", "OF", " ", "CONTENTS" >>,
      << " ", "MU", "LU", " " >> }
FigureTexts ==
    { << "TU", "1" >>, << "TU", " ", "1", "-", "1", " ", "XU" >>,
      << "Figure", " ", "2" >>, << "FIGURE", "2" >>, << "\t", "figure", " ", " ", "1" >> }
TableTexts ==
    { << "BIAO", "1" >>, << "Table", " ", "1" >>, << "table", "2", " ", "XU" >>,
      << "BIAO", " ", "2", " " >> }
\* texts that match none
OpenTexts ==
    { << "XU" >>, << "DI", "YI", "ZHANG" >>, << "MU", "LU", " ", "XU" >>,
      << "TU", "XU" >>, << "Table", " ", "of" >>, << "1", ".", "1", " ", "XU" >>,
      << "XU", " ", "TU", "1" >> }

Samples ==
    [ text : TocTexts \cup FigureTexts \cup TableTexts \cup OpenTexts,
      index : { 0, 24, 25, 34, 35 },
      alignment : { "None", "LEFT", "CENTER", "RIGHT", "JUSTIFY", "DISTRIBUTE",
                    "JUSTIFY_MED" },
      numbered : BOOLEAN,
      bold : { "T", "N" },
      size : { NoVal, 1600 },
      ai_label : { "", "body", "cover", "figure_caption" } ]

\* the paragraph a sample stands for
SampleParagraph(x) ==
    Para(<< TextRun(x.text, x.size, x.bold) >>, x.alignment, LsNone, x.numbered, NoStyle)

\* One paragraph through both classifiers: TemplateDetector._classify on its
\* snapshot, and the row _apply_paragraph_rules builds for it, with the label
\* the AI classifier returned for its index (if any)
Resolve ==
    /\ sample # << >>
    /\ verdict = << >>
    /\ LET p == SampleParagraph(sample)
           text == Strip(ParaText(p))
           heuristic_group == ClassifyApplier(sample.index, text, p)
           locked_group == LockedGroup(text)
           ai_labels == IF sample.ai_label = "" THEN EmptyMap
                        ELSE [ i \in { sample.index } |-> sample.ai_label ]
       IN  verdict' =
             [ detector |-> ClassifyDetector(SnapshotParagraph(p, sample.index)),
               snapshot_alignment |-> SnapshotParagraph(p, sample.index).alignment,
               heuristic |-> heuristic_group,
               sent_to_ai |-> (locked_group = ""),
               applier |-> ResolveGroup(locked_group, ai_labels, sample.index,
                                        heuristic_group) ]
    /\ UNCHANGED << sample, detectorVars, classifierVars, applierVars, rulesVars, jobsVars >>

InitLocked ==
    /\ DetectorIdle
    /\ ClassifierIdle
    /\ ApplierIdle
    /\ RulesIdle
    /\ JobsIdle
    /\ sample \in Samples
    /\ verdict = << >>

NextLocked == Resolve

SpecLocked == InitLocked /\ [][NextLocked]_vars

ExpectedLock ==
    IF sample.text \in TocTexts THEN "toc"
    ELSE IF sample.text \in FigureTexts THEN "figure_caption"
    ELSE "table_caption"

\* C4: a paragraph whose stripped text matches a locked pattern gets the
\* locked group (toc, figure_caption, table_caption) from the detector's
\* classifier and from the applier, whatever its index, alignment, numbering,
\* boldness, font size and the label the AI classifier returned for it, and
\* it is not sent to the AI classifier.
C4_LockedGroups ==
    (verdict # << >> /\ sample.text \in TocTexts \cup FigureTexts \cup TableTexts) =>
        /\ verdict.detector = ExpectedLock
        /\ verdict.heuristic = ExpectedLock
        /\ verdict.applier = ExpectedLock
        /\ ~verdict.sent_to_ai

\* a centred, bold, numbered figure caption at index 0 for which the AI
\* classifier returned body
C4_Witness ==
    /\ verdict # << >>
    /\ sample.text = << "Figure", " ", "2" >>
    /\ sample.index = 0
    /\ sample.alignment = "CENTER"
    /\ sample.numbered
    /\ sample.bold = "T"
    /\ sample.ai_label = "body"
    /\ verdict.applier = "figure_caption"

\* the group of the first matching rule when the numbered-list rule comes
\* after the front-matter keyword rule and both centred early-page rules
NumberedRuleLast(s) ==
    LET text == s.text
    IN  IF TOC_RE_detector(text)
           \/ text \in { << "TU", "MU", "LU" >>, << "BIAO", "MU", "LU" >> } THEN "toc"
        ELSE IF FIGURE_RE(text) THEN "figure_caption"
        ELSE IF TABLE_RE(text) THEN "table_caption"
        ELSE IF CHAPTER_RE(text) THEN "chapter_title"
        ELSE IF SECTION_RE(text) THEN "section_title"
        ELSE IF SUBSECTION_RE(text) THEN "subsection_title"
        ELSE IF ABSTRACT_RE(text) \/ KEYWORDS_RE(text) THEN "front_matter"
        ELSE IF s.index < 25 /\ s.alignment = "center"
                /\ (s.bold \/ s.font_size_pt >= 1400) THEN "cover"
        ELSE IF s.index < 35 /\ s.alignment = "center" THEN "front_matter"
        ELSE IF s.is_numbered /\ Len(text) < 80 THEN "subsection_title"
        ELSE "body"

\* C17: the detector's classifier returns the group of the first matching
\* rule in the order locked groups, chapter title, section title, multi-level
\* numeric prefix, Abstract/Keywords, centred cover, centred front matter,
\* numbered and short, body: the numbered-list rule is consulted only after
\* the front-matter keyword rule and both centred early-page rules.
C17_DetectorOrder ==
    verdict # << >> =>
        verdict.detector = NumberedRuleLast(SnapshotParagraph(SampleParagraph(sample),
                                                              sample.index))

Tri == { "T", "F", "N" }

\* paragraphs by what decides their snapshot: a whitespace-only bold 20 pt
\* run in front or not, a run with text or none, the font attributes of that
\* run and of the named style, the line spacing (a paragraph without such a
\* run is one whose text sits outside paragraph.runs, in a hyperlink)
SnapshotSamples ==
    [ lead : BOOLEAN,
      has_run : BOOLEAN,
      size : { NoVal, 1000, 4000 },
      bold : Tri,
      italic : Tri,
      style_size : { NoVal, 1400 },
      style_bold : Tri,
      style_italic : { "T", "N" },
      ls : { LsNone, LsMultiple(50), LsMultiple(200), LsMultiple(350),
             LsExact(12), LsExact(18), LsExact(40) } ]

\* the paragraph a snapshot sample stands for
SnapshotSampleParagraph(x) ==
    Para((IF x.lead THEN << Run(<< " " >>, FALSE, "", "", 2000, "T", "T") >> ELSE << >>)
            \o (IF x.has_run
                THEN << Run(<< "XU" >>, FALSE, "", "", x.size, x.bold, x.italic) >>
                ELSE << >>),
         "None", x.ls, FALSE,
         [ name |-> "", size |-> x.style_size, bold |-> x.style_bold,
           italic |-> x.style_italic ])

\* TemplateDetector._snapshot_paragraph on one paragraph
TakeSnapshot ==
    /\ sample # << >>
    /\ verdict = << >>
    /\ verdict' = SnapshotParagraph(SnapshotSampleParagraph(sample), 0)
    /\ UNCHANGED << sample, detectorVars, classifierVars, applierVars, rulesVars, jobsVars >>

InitSnapshot ==
    /\ DetectorIdle
    /\ ClassifierIdle
    /\ ApplierIdle
    /\ RulesIdle
    /\ JobsIdle
    /\ sample \in SnapshotSamples
    /\ verdict = << >>

NextSnapshot == TakeSnapshot

SpecSnapshot == InitSnapshot /\ [][NextSnapshot]_vars

\* run value when the run specifies it, else style value when the style
\* specifies it, else the default
RunStyleDefault(has_run, run_value, style_value, unset, default) ==
    IF has_run /\ run_value # unset THEN run_value
    ELSE IF style_value # unset THEN style_value
    ELSE default

\* C21: font size, bold and italic of a snapshot each come from the first
\* run with non-whitespace text when it specifies the attribute, otherwise
\* from the named style when it specifies it, otherwise the default (12, not
\* bold, not italic); a run that leaves bold unset under a bold style gives
\* bold = true.
C21_RunThenStyleThenDefault ==
    verdict # << >> =>
        /\ verdict.font_size_pt =
              Clamp(800, RunStyleDefault(sample.has_run, sample.size, sample.style_size,
                                         NoVal, 1200), 3600)
        /\ verdict.bold =
              (RunStyleDefault(sample.has_run, sample.bold, sample.style_bold, "N", "F") = "T")
        /\ verdict.italic =
              (RunStyleDefault(sample.has_run, sample.italic, sample.style_italic, "N", "F")
                  = "T")

\* C22: an exact line spacing of P points, P > 10, with resolved font size F
\* gives the snapshot line spacing P / F clamped to [1.0, 3.0]; a numeric
\* multiple is passed through clamped to [1.0, 3.0]; a missing value gives
\* 1.5.
C22_LineSpacing ==
    verdict # << >> =>
        LET F == RunStyleDefault(sample.has_run, sample.size, sample.style_size, NoVal, 1200)
            P == sample.ls.val \div 12700
        IN  verdict.line_spacing =
              IF sample.ls.kind = "none" THEN 150
              ELSE IF sample.ls.kind = "float" THEN Clamp(100, sample.ls.val, 300)
              ELSE Clamp(100, (P * 10000) \div F, 300)

\* ------------------------------------------------------------- rules: JSON
\* A JSON value, which is also what json.loads hands to model_validate: a
\* tagged value
JNull == [ t |-> "null", v |-> "" ]
JNum(n) == [ t |-> "number", v |-> n ]
JStr(x) == [ t |-> "string", v |-> x ]
JBool(b) == [ t |-> "bool", v |-> b ]
JArr(xs) == [ t |-> "array", v |-> xs ]
JObj(members) == [ t |-> "object", v |-> members ]

NoMembers == [ k \in {} |-> JNull ]

\* a member of a JSON object, or the default when the key is absent
Member(obj, key, default) == IF key \in DOMAIN obj.v THEN obj.v[key] ELSE default

Alignments == { "left", "center", "right", "justify" }
PageNumberFormats == { "decimal", "upperRoman", "lowerRoman", "none" }

\* ParagraphRule.model_dump then json.dumps
DumpRule(rule) ==
    JObj([ font_name |-> JStr(rule.font_name),
           font_size_pt |-> JNum(rule.font_size_pt),
           bold |-> JBool(rule.bold),
           italic |-> JBool(rule.italic),
           alignment |-> JStr(rule.alignment),
           line_spacing |-> JNum(rule.line_spacing),
           space_before_pt |-> JNum(rule.space_before_pt),
           space_after_pt |-> JNum(rule.space_after_pt),
           first_line_indent_pt |-> JNum(rule.first_line_indent_pt) ])

\* whether validation of a ParagraphRule accepts the value
RuleAccepted(j) ==
    /\ j.t = "object"
    /\ \A k \in (DOMAIN j.v) \cap { "font_size_pt", "line_spacing", "space_before_pt",
                                   "space_after_pt", "first_line_indent_pt" } :
          j.v[k].t = "number"
    /\ \A k \in (DOMAIN j.v) \cap { "bold", "italic" } : j.v[k].t = "bool"
    /\ "alignment" \in DOMAIN j.v =>
          j.v["alignment"].t = "string" /\ j.v["alignment"].v \in Alignments

\* ParagraphRule validated from a value: absent fields take their defaults,
\* font size and line spacing are clamped, the font name is the required
\* one, fields the model does not know are ignored
ValidateRule(j) ==
    ParagraphRule(Member(j, "font_size_pt", JNum(1200)).v,
                  Member(j, "bold", JBool(FALSE)).v,
                  Member(j, "italic", JBool(FALSE)).v,
                  Member(j, "alignment", JStr("justify")).v,
                  Member(j, "line_spacing", JNum(150)).v,
                  Member(j, "space_before_pt", JNum(0)).v,
                  Member(j, "space_after_pt", JNum(0)).v,
                  Member(j, "first_line_indent_pt", JNum(0)).v)

PageLengths ==
    { "page_width_pt", "page_height_pt", "margin_top_pt", "margin_bottom_pt",
      "margin_left_pt", "margin_right_pt", "header_distance_pt", "footer_distance_pt",
      "gutter_pt" }

\* PageRule.model_dump then json.dumps
DumpPage(page) ==
    JObj([ k \in DOMAIN page |->
             IF k = "page_number_format" THEN JStr(page[k]) ELSE JNum(page[k]) ])

PageAccepted(j) ==
    /\ j.t = "object"
    /\ \A k \in (DOMAIN j.v) \cap (PageLengths \cup { "page_number_start" }) :
          j.v[k].t = "number"
    /\ "page_number_format" \in DOMAIN j.v =>
          /\ j.v["page_number_format"].t = "string"
          /\ j.v["page_number_format"].v \in PageNumberFormats

\* PageRule validated from a value: no field is clamped
ValidatePage(j) ==
    [ k \in DOMAIN DefaultPageRule |->
        Member(j, k, IF k = "page_number_format" THEN JStr(DefaultPageRule[k])
                                                 ELSE JNum(DefaultPageRule[k])).v ]

\* a dump of the rules that leaves the first-line indent out
DumpRuleSet_NoIndent(rs) ==
    JObj([ version |-> JStr(rs.version),
           template_id |-> IF rs.template_id = << >> THEN JNull
                           ELSE JStr(rs.template_id[1]),
           template_name |-> JStr(rs.template_name),
           page |-> DumpPage(rs.page),
           groups |-> JObj([ k \in DOMAIN rs.groups |->
                               JObj([ f \in (DOMAIN DumpRule(rs.groups[k]).v)
                                               \ { "first_line_indent_pt" } |->
                                        DumpRule(rs.groups[k]).v[f] ]) ]),
           detection_notes |->
               JArr([ i \in 1..Len(rs.detection_notes) |-> JStr(rs.detection_notes[i]) ]) ])

\* RuleSet.model_dump then json.dumps; template_id is a sequence, empty for None
DumpRuleSet(rs) ==
    JObj([ version |-> JStr(rs.version),
           template_id |-> IF rs.template_id = << >> THEN JNull
                           ELSE JStr(rs.template_id[1]),
           template_name |-> JStr(rs.template_name),
           page |-> DumpPage(rs.page),
           groups |-> JObj([ k \in DOMAIN rs.groups |-> DumpRule(rs.groups[k]) ]),
           detection_notes |->
               JArr([ i \in 1..Len(rs.detection_notes) |-> JStr(rs.detection_notes[i]) ]) ])

\* whether RuleSet.model_validate / model_validate_json accepts the value
RuleSetAccepted(j) ==
    /\ j.t = "object"
    /\ \A k \in (DOMAIN j.v) \cap { "version", "template_name" } : j.v[k].t = "string"
    /\ "template_id" \in DOMAIN j.v => j.v["template_id"].t \in { "null", "string" }
    /\ "page" \in DOMAIN j.v => PageAccepted(j.v["page"])
    /\ "groups" \in DOMAIN j.v =>
          /\ j.v["groups"].t = "object"
          /\ \A k \in DOMAIN j.v["groups"].v : RuleAccepted(j.v["groups"].v[k])
    /\ "detection_notes" \in DOMAIN j.v =>
          /\ j.v["detection_notes"].t = "array"
          /\ \A i \in 1..Len(j.v["detection_notes"].v) :
                j.v["detection_notes"].v[i].t = "string"

\* RuleSet validated from a value: absent fields take their defaults (the
\* default groups are the nine of default_factory), a groups mapping that is
\* given goes through ensure_group_keys
ValidateRuleSet(j) ==
    [ version |-> Member(j, "version", JStr("1.0")).v,
      template_id |-> IF Member(j, "template_id", JNull).t = "null" THEN << >>
                      ELSE << j.v["template_id"].v >>,
      template_name |-> Member(j, "template_name", JStr("")).v,
      page |-> IF "page" \in DOMAIN j.v THEN ValidatePage(j.v["page"]) ELSE DefaultPageRule,
      groups |-> IF "groups" \in DOMAIN j.v
                 THEN EnsureGroupKeys([ k \in DOMAIN j.v["groups"].v |->
                                          ValidateRule(j.v["groups"].v[k]) ])
                 ELSE DefaultRuleSet.groups,
      detection_notes |->
          LET given == Member(j, "detection_notes", JArr(<< >>)).v
          IN  [ i \in 1..Len(given) |-> given[i].v ] ]

\* rules.model_copy(update={"template_id": ..., "template_name": ...})
ModelCopy(rs, record) ==
    [ rs EXCEPT !.template_id = << record.id >>, !.template_name = record.name ]

\* the template record the rules are stored on
TemplateRecord == [ id |-> "t1", name |-> "Uploaded" ]

\* -------------------------------------------------------- rules: operations
\* create_job: RuleSet.model_validate(json.loads(rules_override)); a payload
\* that fails validation is answered with HTTP 400
ValidateOverride ==
    /\ rpc = "start"
    /\ IF RuleSetAccepted(rpayload)
       THEN rset' = ValidateRuleSet(rpayload) /\ rpc' = "valid"
       ELSE rset' = rset /\ rpc' = "rejected"
    /\ UNCHANGED << rpayload, rstore, rloaded, detectorVars, classifierVars, applierVars,
                    lockedVars, jobsVars >>

\* TemplateService.update_rules
UpdateRules ==
    /\ rpc = "valid"
    /\ rstore' = DumpRuleSet(ModelCopy(rset, TemplateRecord))
    /\ rpc' = "stored"
    /\ UNCHANGED << rpayload, rset, rloaded, detectorVars, classifierVars, applierVars,
                    lockedVars, jobsVars >>

\* TemplateService.get_rules (process_job reads the rules the same way)
GetRules ==
    /\ rpc = "stored"
    /\ rloaded' = ValidateRuleSet(rstore)
    /\ rpc' = "loaded"
    /\ UNCHANGED << rpayload, rset, rstore, detectorVars, classifierVars, applierVars,
                    lockedVars, jobsVars >>

\* the rules a caller may send for one group
RawRulePool ==
    { JObj(NoMembers),
      JObj([ font_size_pt |-> JNum(5000), space_before_pt |-> JNum(50000),
             font_name |-> JStr("Arial") ]),
      JObj([ line_spacing |-> JNum(50), first_line_indent_pt |-> JNum(0 - 10000),
             bold |-> JBool(TRUE), alignment |-> JStr("center") ]),
      JObj([ alignment |-> JStr("middle") ]) }

PayloadGroupKeys == { "body", "toc", "appendix" }

\* the members a payload may carry for each of its keys
PayloadChoices ==
    [ groups : { JObj(g) : g \in UNION { [ K -> RawRulePool ] : K \in SUBSET PayloadGroupKeys } },
      template_id : { JNull, JStr("t9") },
      page : { JObj([ gutter_pt |-> JNum(1207), page_number_format |-> JStr("none"),
                      page_number_start |-> JNum(0) ]) },
      detection_notes : { JArr(<< JStr("note") >>) } ]

Payloads ==
    { JObj([ k \in K |-> c[k] ]) :
        K \in SUBSET { "groups", "template_id", "page", "detection_notes" },
        c \in PayloadChoices }

InitRules ==
    /\ DetectorIdle
    /\ ClassifierIdle
    /\ ApplierIdle
    /\ LockedIdle
    /\ JobsIdle
    /\ rpayload \in Payloads
    /\ rset = << >>
    /\ rstore = << >>
    /\ rloaded = << >>
    /\ rpc = "start"

NextRules == ValidateOverride \/ UpdateRules \/ GetRules

SpecRules == InitRules /\ [][NextRules]_vars

\* ----------------------------------------------------------- rules: claims
\* C13: every RuleSet, validated from a payload or read back from stored
\* JSON, has a groups mapping whose keys are exactly the nine canonical keys.
C13_ExactlyNineKeys ==
    /\ rpc \in { "valid", "stored", "loaded" } => DOMAIN rset.groups = GroupKeySet
    /\ rpc = "loaded" => DOMAIN rloaded.groups = GroupKeySet

\* C14: a RuleSet dumped to JSON and validated back is the same RuleSet in
\* version, template id and name, page, group rules and detection notes;
\* get_rules after update_rules returns the rules update_rules stored.
C14_RoundTrip ==
    /\ rpc \in { "valid", "stored", "loaded" } =>
          /\ RuleSetAccepted(DumpRuleSet(rset))
          /\ ValidateRuleSet(DumpRuleSet(rset)) = rset
    /\ rpc = "loaded" => rloaded = ModelCopy(rset, TemplateRecord)

\* rules with an extra group, a clamped font size, a negative indent and
\* another template id went through update_rules and get_rules
C14_Witness ==
    /\ rpc = "loaded"
    /\ "appendix" \in DOMAIN rloaded.groups
    /\ rloaded.groups["body"].font_size_pt = 3600
    /\ rloaded.groups["toc"].first_line_indent_pt = 0 - 10000
    /\ rset.template_id = << "t9" >>
    /\ rloaded.template_id = << "t1" >>
    /\ rloaded.detection_notes = << "note" >>
    /\ rloaded.page.gutter_pt = 1207

RuleInRanges(rule) ==
    /\ rule.font_size_pt >= 800 /\ rule.font_size_pt <= 3600
    /\ rule.line_spacing >= 100 /\ rule.line_spacing <= 300
    /\ rule.space_before_pt >= 0 - 2400 /\ rule.space_before_pt <= 12000
    /\ rule.space_after_pt >= 0 - 2400 /\ rule.space_after_pt <= 12000
    /\ rule.first_line_indent_pt >= 0 - 3600 /\ rule.first_line_indent_pt <= 7200

\* C15: every rule of a RuleSet that reaches the applier, rules sent by a
\* caller included, has font size in [8, 36], line spacing in [1, 3], space
\* before and after in [-24, 120] and first-line indent in [-36, 72].
C15_RuleRanges ==
    /\ rpc \in { "valid", "stored", "loaded" } =>
          \A k \in DOMAIN rset.groups : RuleInRanges(rset.groups[k])
    /\ rpc = "loaded" =>
          \A k \in DOMAIN rloaded.groups : RuleInRanges(rloaded.groups[k])

\* ---------------------------------------------------------------- jobs
\* rules_json of the template record: the default rules, stored under its id
TemplateRulesJson == DumpRuleSet(ModelCopy(ValidateRuleSet(JObj(NoMembers)), TemplateRecord))

\* what a POST, a status request or a download answers
Response(kind, code, status, download_url, body) ==
    [ kind |-> kind, code |-> code, status |-> status, download_url |-> download_url,
      body |-> body ]

NoResponse == Response("none", 0, "", << >>, << >>)

NoFiles == [ path \in {} |-> << >> ]

\* an uploaded PDF: whether pdfplumber can open it, and for each page the
\* stripped non-empty lines extract_text gives, each with its character count
PdfFile(readable, pages) == [ readable |-> readable, pages |-> pages ]
PdfLine(text, chars) == [ text |-> text, chars |-> chars ]

\* the suffix of the uploaded file name
TargetKind(file) == IF "pages" \in DOMAIN file THEN "pdf" ELSE "docx"

\* uuid4 values: the n-th one drawn differs from those drawn before
JobIds == << "j1", "j2", "j3", "j4" >>
JobId(n) == JobIds[n]

\* JobService.create_job: the record it adds
JobRecord(id, template_id, target_kind, override) ==
    [ id |-> id,
      template_id |-> template_id,
      target_kind |-> target_kind,
      status |-> "queued",
      progress |-> 0,
      rules_override_json |-> IF override = << >> THEN << >>
                              ELSE << DumpRuleSet(ValidateRuleSet(override[1])) >>,
      working_docx_path |-> << >>,
      conversion_confidence |-> NoVal,
      warning_message |-> << >>,
      output_docx_path |-> << >>,
      error_message |-> << >> ]

\* a call of process_job that add_task holds: its arguments, how it ended and
\* the paths it saved a file to
Task(args) == [ args |-> args, state |-> "scheduled", written |-> {} ]

\* POST /api/jobs: a rules_override that fails validation is answered 400;
\* otherwise the job is created and process_job is scheduled with the job id
\* and the AI options (None when no AI form field was filled)
CreateJob ==
    /\ jpc \in { "start", "created" }
    /\ Len(jobs) < MaxJobs
    /\ IF joverride # << >> /\ ~RuleSetAccepted(joverride[1])
       THEN /\ jresp' = Response("create", 400, "", << >>, << >>)
            /\ jpc' = "rejected"
            /\ UNCHANGED << jobs, jtasks >>
       ELSE LET job == JobRecord(JobId(Len(jobs) + 1), TemplateRecord.id,
                                 TargetKind(jtarget), joverride)
            IN  /\ jobs' = Append(jobs, job)
                /\ jtasks' = Append(jtasks, Task(<< job.id, jform >>))
                /\ jresp' = Response("create", 200, job.status, << >>, << >>)
                /\ jpc' = "created"
    /\ UNCHANGED << jtarget, jform, joverride, joutputs, detectorVars, classifierVars,
                    applierVars, lockedVars, rulesVars >>

\* the positional parameters of process_job after self
ProcessJobParams == << "job_id" >>

OutputPath_Fixed(job_id) == << "formatted_", ".docx" >>

OutputPath(job_id) == << "formatted_", job_id, ".docx" >>

IntermediatePath(job_id) == << "intermediate_", job_id, ".docx" >>

\* the paragraph a page without extracted text is replaced by
PdfPlaceholder ==
    NewPara(<< Run(<< "[", "CI", "YE", "WEI", "NENG", "XIE", "QU", "]" >>, FALSE, "", "",
                   NoVal, "N", "T") >>)

RECURSIVE PdfPageParagraphs(_, _)
\* the paragraphs convert adds for the pages from the k-th on
PdfPageParagraphs(pages, k) ==
    IF k > Len(pages) THEN << >>
    ELSE (IF pages[k] = << >> THEN << PdfPlaceholder >>
          ELSE [ i \in 1..Len(pages[k]) |-> NewPara(<< PlainRun(pages[k][i].text) >>) ])
         \o (IF k < Len(pages) THEN << NewPara(<< Run(<< >>, TRUE, "", "", NoVal, "N", "N") >>) >>
             ELSE << >>)
         \o PdfPageParagraphs(pages, k + 1)

RECURSIVE PdfChars(_, _)
PdfChars(lines, k) == IF k > Len(lines) THEN 0 ELSE lines[k].chars + PdfChars(lines, k + 1)

RECURSIVE ExtractedChars(_, _)
ExtractedChars(pages, k) ==
    IF k > Len(pages) THEN 0 ELSE PdfChars(pages[k], 1) + ExtractedChars(pages, k + 1)

\* confidence in thousandths: 0.7 of the share of pages with text plus 0.3 of
\* the characters per page over 1000, capped at 1
PdfConfidence(pages) ==
    IF Len(pages) = 0 THEN 0
    ELSE LET page_count == Len(pages)
             pages_with_text == Cardinality({ k \in 1..page_count : pages[k] # << >> })
             extracted == ExtractedChars(pages, 1)
             density == IF extracted > page_count * 1000 THEN page_count * 1000
                        ELSE extracted
         IN  (2 * (700 * 1000 * pages_with_text + 300 * density) + page_count * 1000)
                \div (2 * page_count * 1000)

\* PdfToDocxAdapter.convert: pdfplumber raises on a file it cannot open;
\* otherwise the intermediate document, the confidence and the warning
Convert(file) ==
    IF ~file.readable
    THEN [ raised |-> TRUE, error |-> "PDFSyntaxError", document |-> << >>,
           confidence |-> NoVal, warning_message |-> << >> ]
    ELSE LET confidence == PdfConfidence(file.pages)
         IN  [ raised |-> FALSE, error |-> "",
               document |-> << [ paras |-> PdfPageParagraphs(file.pages, 1),
                                 sections |-> << Section("", NoVal, LinkedFooter) >> ] >>,
               confidence |-> confidence,
               warning_message |->
                   IF Len(file.pages) = 0 THEN << "no readable page" >>
                   ELSE IF confidence < 550 THEN << "low conversion quality" >>
                   ELSE << >> ]

FailJob_LeaveRunning(job, message) == job

\* the except branch of process_job
FailJob(job, message) ==
    [ job EXCEPT !.status = "failed", !.progress = 100, !.error_message = << message >> ]

WriteFile(dir, path, content) ==
    [ p \in DOMAIN dir \cup { path } |-> IF p = path THEN content ELSE dir[p] ]

\* JobService.process_job, from the session's opening to its commit: each
\* result is the job table, the files under outputs_dir and work_dir it leaves
\* and the paths it saved to
ProcessJob(table, outputs, target, job_id) ==
    IF \A k \in 1..Len(table) : table[k].id # job_id
    THEN { [ jobs |-> table, outputs |-> outputs, written |-> {} ] }
    ELSE LET k == CHOOSE n \in 1..Len(table) : table[n].id = job_id
             job == table[k]
         IN  IF job.template_id # TemplateRecord.id
             THEN { [ jobs |-> [ table EXCEPT ![k] =
                                   [ job EXCEPT !.status = "failed", !.progress = 100,
                                                !.error_message = << "Template not found." >> ] ],
                      outputs |-> outputs, written |-> {} ] }
             ELSE LET running == [ job EXCEPT !.status = "running", !.progress = 5 ]
                      rules_json == IF job.rules_override_json # << >>
                                    THEN job.rules_override_json[1]
                                    ELSE TemplateRulesJson
                  IN  IF ~RuleSetAccepted(rules_json)
                      THEN { [ jobs |-> [ table EXCEPT ![k] = FailJob(running, "ValidationError") ],
                               outputs |-> outputs, written |-> {} ] }
                      ELSE
                  LET job_rules == ModelCopy(ValidateRuleSet(rules_json), TemplateRecord)
                      conversion == IF job.target_kind = "pdf" THEN Convert(target)
                                    ELSE [ raised |-> FALSE, error |-> "",
                                           document |-> << target >>, confidence |-> NoVal,
                                           warning_message |-> << >> ]
                  IN  IF conversion.raised
                      THEN { [ jobs |-> [ table EXCEPT ![k] = FailJob(running, conversion.error) ],
                               outputs |-> outputs, written |-> {} ] }
                      ELSE
                  LET intermediate_docx == IntermediatePath(job.id)
                      converted == IF job.target_kind = "pdf"
                                   THEN [ running EXCEPT
                                            !.working_docx_path = << intermediate_docx >>,
                                            !.conversion_confidence = conversion.confidence,
                                            !.warning_message = conversion.warning_message,
                                            !.progress = 40 ]
                                   ELSE running
                      work == IF job.target_kind = "pdf"
                              THEN WriteFile(outputs, intermediate_docx, conversion.document[1])
                              ELSE outputs
                      saved == IF job.target_kind = "pdf" THEN { intermediate_docx } ELSE {}
                      output_path == OutputPath(job.id)
                  IN  { IF r.outcome.raised
                        THEN [ jobs |-> [ table EXCEPT ![k] = FailJob(converted, r.outcome.error) ],
                               outputs |-> work, written |-> saved ]
                        ELSE [ jobs |-> [ table EXCEPT ![k] =
                                            [ converted EXCEPT
                                                !.output_docx_path = << output_path >>,
                                                !.progress = 100,
                                                !.status = "success",
                                                !.error_message = << >> ] ],
                               outputs |-> WriteFile(work, output_path, r.saved[1]),
                               written |-> saved \cup { output_path } ]
                        : r \in ApplyDocument(conversion.document[1], job_rules, << >>) }

\* the background task: process_job called with the arguments add_task was
\* given; a call whose arguments do not fit the parameters raises TypeError
\* before the body runs
RunTask ==
    /\ jpc = "created"
    /\ \E t \in 1..Len(jtasks) :
          /\ jtasks[t].state = "scheduled"
          /\ IF Len(jtasks[t].args) # Len(ProcessJobParams)
             THEN /\ jtasks' = [ jtasks EXCEPT ![t].state = "TypeError" ]
                  /\ UNCHANGED << jobs, joutputs >>
             ELSE \E r \in ProcessJob(jobs, joutputs, jtarget, jtasks[t].args[1]) :
                     /\ jobs' = r.jobs
                     /\ joutputs' = r.outputs
                     /\ jtasks' = [ jtasks EXCEPT ![t].state = "returned",
                                                  ![t].written = r.written ]
    /\ UNCHANGED << jtarget, jform, joverride, jresp, jpc, detectorVars, classifierVars,
                    applierVars, lockedVars, rulesVars >>

\* GET /api/jobs/{job_id}
GetJobStatus ==
    /\ jpc = "created"
    /\ \E k \in 1..Len(jobs) :
          LET job == jobs[k]
          IN  jresp' = Response("status", 200, job.status,
                                IF job.status = "success" /\ job.output_docx_path # << >>
                                THEN << "/api/jobs/", job.id, "/download" >>
                                ELSE << >>,
                                << >>)
    /\ UNCHANGED << jtarget, jform, joverride, jobs, jtasks, joutputs, jpc, detectorVars,
                    classifierVars, applierVars, lockedVars, rulesVars >>

\* GET /api/jobs/{job_id}/download
DownloadJobOutput ==
    /\ jpc = "created"
    /\ \E k \in 1..Len(jobs) :
          LET job == jobs[k]
          IN  IF job.status # "success" \/ job.output_docx_path = << >>
              THEN jresp' = Response("download", 400, job.status, << >>, << >>)
              ELSE jresp' = Response("download", 200, job.status, << >>,
                                     << joutputs[job.output_docx_path[1]] >>)
    /\ UNCHANGED << jtarget, jform, joverride, jobs, jtasks, joutputs, jpc, detectorVars,
                    classifierVars, applierVars, lockedVars, rulesVars >>

\* the rules_override form field: absent, the empty object, a bad alignment
JobOverrides ==
    { << >>,
      << JObj(NoMembers) >>,
      << JObj([ groups |-> JObj([ body |-> JObj([ alignment |-> JStr("middle") ]) ]) ]) >> }

\* PDF uploads: not a PDF; no page; a page without text; a page holding a
\* figure caption; a page holding a line of body text; a caption page
\* followed by a page without text
PdfTargets ==
    { PdfFile(FALSE, << >>),
      PdfFile(TRUE, << >>),
      PdfFile(TRUE, << << >> >>),
      PdfFile(TRUE, << << PdfLine(<< "Figure", " ", "1", " ", "XU" >>, 10) >> >>),
      PdfFile(TRUE, << << PdfLine(<< "XU" >>, 1) >> >>),
      PdfFile(TRUE, << << PdfLine(<< "Figure", " ", "1", " ", "XU" >>, 10) >>, << >> >>) }

\* uploads: DOCX documents of up to MaxJobParas paragraphs, and the PDFs
JobTargets ==
    { [ paras |-> ps, sections |-> ss ] :
        ps \in UNION { [ 1..n -> SrcParaPool ] : n \in 0..MaxJobParas },
        ss \in SrcSectionsPool }
    \cup PdfTargets

InitJobs ==
    /\ DetectorIdle
    /\ ClassifierIdle
    /\ ApplierIdle
    /\ LockedIdle
    /\ RulesIdle
    /\ jtarget \in JobTargets
    /\ jform \in AiOptions
    /\ joverride \in JobOverrides
    /\ jobs = << >>
    /\ jtasks = << >>
    /\ joutputs = NoFiles
    /\ jresp = NoResponse
    /\ jpc = "start"

NextJobs == CreateJob \/ RunTask \/ GetJobStatus \/ DownloadJobOutput

SpecJobs == InitJobs /\ [][NextJobs]_vars

\* process_job on its own: every job of the table queued as create_job left
\* it, its template still stored ("t1") or deleted since, and one call of
\* process_job per job with the job id alone
ProcessJobRecords ==
    { JobRecord("", template_id, "", override) :
        template_id \in { TemplateRecord.id, "deleted" },
        override \in { << >>, << JObj(NoMembers) >> } }

InitProcess ==
    /\ DetectorIdle
    /\ ClassifierIdle
    /\ ApplierIdle
    /\ LockedIdle
    /\ RulesIdle
    /\ jtarget \in JobTargets
    /\ jform = << >>
    /\ joverride = << >>
    /\ \E records \in [ 1..MaxJobs -> ProcessJobRecords ] :
          jobs = [ k \in 1..MaxJobs |->
                     [ records[k] EXCEPT !.id = JobId(k), !.target_kind = TargetKind(jtarget) ] ]
    /\ jtasks = [ k \in 1..MaxJobs |-> Task(<< JobId(k) >>) ]
    /\ joutputs = NoFiles
    /\ jresp = NoResponse
    /\ jpc = "created"

NextProcess == RunTask \/ GetJobStatus \/ DownloadJobOutput

SpecProcess == InitProcess /\ [][NextProcess]_vars

JobById(id) == jobs[CHOOSE k \in 1..Len(jobs) : jobs[k].id = id]

\* ------------------------------------------------------------ jobs: claims
\* C16: once the background task scheduled for a job created through
\* POST /api/jobs with an existing template and a valid DOCX target has run,
\* the job has status 'success'; the status response of a successful job
\* carries a download URL and its download returns the formatted file.
C16_JobSucceeds ==
    /\ \A t \in 1..Len(jtasks) :
          (jtasks[t].state # "scheduled" /\ TargetKind(jtarget) = "docx")
             => JobById(jtasks[t].args[1]).status = "success"
    /\ (jresp.kind = "status" /\ jresp.status = "success") => jresp.download_url # << >>
    /\ (jresp.kind = "download" /\ jresp.status = "success") =>
          jresp.code = 200 /\ jresp.body # << >>

\* C26: when process_job has returned for a job whose template was found, the
\* job is 'success', or it is 'failed' with progress 100 and the text of the
\* exception as error_message; a job whose template is missing is 'failed'
\* with progress 100; no returned call leaves its job 'running'.
C26_FailureIsRecorded ==
    \A t \in 1..Len(jtasks) :
       jtasks[t].state = "returned" =>
          LET job == JobById(jtasks[t].args[1])
          IN  /\ job.status \in { "success", "failed" }
              /\ job.status # "running"
              /\ job.progress = 100
              /\ job.status = "failed" => job.error_message # << >>
              /\ job.status = "success" =>
                    /\ job.error_message = << >>
                    /\ job.output_docx_path = << OutputPath(job.id) >>
              /\ job.template_id # TemplateRecord.id =>
                    job.status = "failed" /\ job.error_message = << "Template not found." >>
              /\ (job.template_id = TemplateRecord.id /\ job.target_kind = "pdf"
                  /\ ~jtarget.readable) =>
                    job.status = "failed" /\ job.error_message = << "PDFSyntaxError" >>
              /\ (job.status = "failed" /\ job.template_id = TemplateRecord.id) =>
                    job.error_message[1] \in { "PDFSyntaxError", "AttributeError",
                                               "ValidationError" }

\* a job failed by apply raising, and a job failed by the conversion raising
C26_Witness ==
    \E t \in 1..Len(jtasks) :
       /\ jtasks[t].state = "returned"
       /\ JobById(jtasks[t].args[1]).status = "failed"
       /\ JobById(jtasks[t].args[1]).error_message = << "AttributeError" >>
       /\ JobById(jtasks[t].args[1]).progress = 100

InstrPageRef == << "P", "A", "G", "E", "R", "E", "F", " ", "_", "T", "o", "c", "1" >>

\* page, the field name in lower case
InstrPageLower == << "p", "a", "g", "e" >>

OwnFooter(paras) == [ linked |-> FALSE, paras |-> paras ]

\* footers: none of its own, an empty paragraph, a PAGE field, a page field
\* in lower case, NUMPAGES only, PAGEREF only, a text line followed by a
\* paragraph holding the PAGE field
SrcFooterPool ==
    { LinkedFooter,
      OwnFooter(<< NewPara(<< >>) >>),
      OwnFooter(<< NewPara(FieldRuns(InstrPage)) >>),
      OwnFooter(<< NewPara(FieldRuns(InstrPageLower)) >>),
      OwnFooter(<< NewPara(FieldRuns(InstrNumPages)) >>),
      OwnFooter(<< NewPara(FieldRuns(InstrPageRef)) >>),
      OwnFooter(<< NewPara(<< PlainRun(<< "XU" >>) >>), NewPara(FieldRuns(InstrPage)) >>) }

PageSections ==
    { Section(f[1], f[2], footer) :
        f \in { << "", NoVal >>, << "upperRoman", 3 >> }, footer \in SrcFooterPool }

\* documents of one or two sections whose paragraphs are none or one caption
PageDocuments ==
    { [ paras |-> ps, sections |-> ss ] :
        ps \in { << >>, << SrcFigureCaption >> },
        ss \in UNION { [ 1..n -> PageSections ] : n \in 1..2 } }

\* the default rules with each page number format and start
PageRuleSets ==
    { [ DefaultRuleSet EXCEPT !.page.page_number_format = f, !.page.page_number_start = st ] :
        f \in PageNumberFormats, st \in { 0, 1 } }

InitPage ==
    /\ DetectorIdle
    /\ ClassifierIdle
    /\ LockedIdle
    /\ RulesIdle
    /\ JobsIdle
    /\ files \in { << d >> : d \in PageDocuments }
    /\ ruleset \in PageRuleSets
    /\ ai_options = << >>
    /\ outcomes = << >>

SpecPage == InitPage /\ [][NextApply]_vars

\* the name of the field an instruction starts with, in upper case
FieldName(instr) ==
    LET t == Upper(instr)
        stop == IF \E i \in 1..Len(t) : t[i] = " "
                THEN (CHOOSE i \in 1..Len(t) : t[i] = " " /\ \A j \in 1..(i - 1) : t[j] # " ") - 1
                ELSE Len(t)
    IN  SubSeq(t, 1, stop)

\* the PAGE fields of the footer section k of a document shows
PageFields(sections, k) ==
    LET footer == sections[FooterOwner(sections, k)].footer
    IN  IF footer.linked THEN {}
        ELSE { << i, j >> \in (DOMAIN footer.paras) \X (1..10) :
                 /\ j <= Len(footer.paras[i].runs)
                 /\ footer.paras[i].runs[j].instr # << >>
                 /\ FieldName(footer.paras[i].runs[j].instr) = << "P", "A", "G", "E" >> }

\* C23: a section whose footer has no PAGE field in the source, whatever
\* other fields it holds, has exactly one PAGE field after every completed
\* apply; a footer that has a PAGE field in any of its paragraphs gets no
\* additional one.
C23_OnePageField ==
    \A n \in 1..Len(outcomes) :
        Completed(n) =>
            \A k \in 1..Len(files[1].sections) :
                IF PageFields(files[1].sections, k) = {}
                THEN Cardinality(PageFields(Output(n).sections, k)) = 1
                ELSE PageFields(Output(n).sections, k) = PageFields(files[1].sections, k)

\* C24 as stated: after the page pass every section has a pgNumType node
\* whose format attribute equals the page_number_format of the rules, for
\* decimal, upperRoman, lowerRoman and none.
C24_Original ==
    Completed(1) =>
        \A k \in 1..Len(Output(1).sections) :
            /\ Output(1).sections[k].pg_node
            /\ Output(1).sections[k].pg_fmt = ruleset.page.page_number_format

\* C24 as amended: after the page pass every section has a pgNumType node;
\* its format attribute equals the page_number_format of the rules when that
\* is decimal, upperRoman or lowerRoman, and is what the source section had
\* (absent included) when it is none.
C24_Amended ==
    Completed(1) =>
        \A k \in 1..Len(Output(1).sections) :
            /\ Output(1).sections[k].pg_node
            /\ Output(1).sections[k].pg_fmt =
                  IF ruleset.page.page_number_format = "none"
                  THEN files[1].sections[k].pg_fmt
                  ELSE ruleset.page.page_number_format

\* an apply with format none completed on a document whose first section
\* had upperRoman and whose second had no pgNumType node
C24_Witness ==
    /\ Completed(1)
    /\ ruleset.page.page_number_format = "none"
    /\ Len(files[1].sections) = 2
    /\ files[1].sections[1].pg_fmt = "upperRoman"
    /\ ~files[1].sections[2].pg_node
    /\ Output(1).sections[2].pg_node

\* ---------------------------------------------------------- index pages
\* a paragraph as the claim compares it: its text and whether it is a lone
\* page break
ParaKey(p) == << ParaText(p), IsPageBreakPara(p) >>

ParaKeys(doc) == [ i \in 1..Len(doc) |-> ParaKey(doc[i]) ]

\* a is b with some elements removed
RECURSIVE IsSubsequence(_, _)
IsSubsequence(a, b) ==
    IF a = << >> THEN TRUE
    ELSE IF b = << >> THEN FALSE
    ELSE IF Head(a) = Head(b) THEN IsSubsequence(Tail(a), Tail(b))
    ELSE IsSubsequence(a, Tail(b))

IsFieldPara(p, instruction) == \E j \in 1..Len(p.runs) : p.runs[j].instr = instruction

\* the three paragraphs from position a on are a page break, the field and
\* the heading of a block
BlockAt(doc, a, title, instruction) ==
    /\ Len(doc) >= a + 2
    /\ IsPageBreakPara(doc[a])
    /\ IsFieldPara(doc[a + 1], instruction)
    /\ ParaText(doc[a + 2]) = title

\* C28: when all three index pages are missing, the output holds the three
\* blocks in the listed order, MU LU, then TU MU LU, then BIAO MU LU, right
\* before the anchor paragraph, each block a page-break paragraph, a field
\* paragraph and a heading paragraph.
C28_BlocksInListedOrder ==
    (Completed(1) /\ files[1].paras # << >> /\ Len(MissingBlocks(files[1].paras)) = 3) =>
        LET src == files[1].paras
            out == Output(1).paras
            chapter == FirstChapterPosition(src)
            a == IF chapter # 0 THEN chapter ELSE 1
        IN  /\ BlockAt(out, a, TitleToc, InstrToc)
            /\ BlockAt(out, a + 3, TitleFigures, InstrFigures)
            /\ BlockAt(out, a + 6, TitleTables, InstrTables)
            /\ Len(out) >= a + 9
            /\ ParaKey(out[a + 9]) = ParaKey(src[a])

\* a heading Table of Contents, as an English thesis has it
SrcTocEnglish == SrcPara(<< ArialRun(<< "Table", " ", "of", " ", "Contents" >>) >>, "None")

IndexParaPool ==
    { SrcToc, SrcTocEnglish, SrcFigures, SrcTables, SrcFigureCaption, SrcBlank, SrcBreak }

\* documents whose paragraphs are index-page titles, captions, blank lines
\* and page breaks
IndexDocuments ==
    { [ paras |-> ps, sections |-> << Section("", NoVal, LinkedFooter) >> ] :
        ps \in UNION { [ 1..n -> IndexParaPool ] : n \in 0..MaxSrcParas } }

InitIndex ==
    /\ DetectorIdle
    /\ ClassifierIdle
    /\ LockedIdle
    /\ RulesIdle
    /\ JobsIdle
    /\ files \in { << d >> : d \in IndexDocuments }
    /\ ruleset \in RuleSets
    /\ ai_options = << >>
    /\ outcomes = << >>

SpecIndex == InitIndex /\ [][NextApply]_vars

\* the paragraphs of a document the applier's classifier locks into toc with
\* a text one of the titles matches, ignoring case
TitleLocked(doc, titles) ==
    { i \in 1..Len(doc) :
        /\ LockedGroup(Strip(ParaText(doc[i]))) = "toc"
        /\ LowerText(Strip(ParaText(doc[i]))) \in titles }

CountFieldParas(doc, instruction) ==
    Cardinality({ i \in 1..Len(doc) : IsFieldPara(doc[i], instruction) })

\* C29: a paragraph locked into toc as a table-of-contents title (MU LU or
\* table of contents, ignoring case) keeps index-page synthesis from adding a
\* table-of-contents block; a paragraph locked as TU MU LU or BIAO MU LU
\* does the same for its block.
C29_LockedTitleSuppressesBlock ==
    Completed(1) =>
        LET src == files[1].paras
            out == Output(1).paras
        IN  /\ TitleLocked(src, { TitleToc, << "table", " ", "of", " ", "contents" >> }) # {}
                  => CountFieldParas(out, InstrToc) = CountFieldParas(src, InstrToc)
            /\ TitleLocked(src, { TitleFigures }) # {}
                  => CountFieldParas(out, InstrFigures) = CountFieldParas(src, InstrFigures)
            /\ TitleLocked(src, { TitleTables }) # {}
                  => CountFieldParas(out, InstrTables) = CountFieldParas(src, InstrTables)

=============================================================================
